---- MODULE Spec2Model ----
(***************************************************************************)
(* Model of src/script.js: the sensor helpers (ensureCamera, ensureMic,    *)
(* stopCamera, stopMic, measureBrightness, measureSoundLevel, detectFace,  *)
(* startMotionCounting, stopMotionCounting), the missions built on them,   *)
(* runMissionById and execLine.                                            *)
(*                                                                         *)
(* The page runs on one JavaScript thread.  An async function runs without *)
(* interruption until it awaits something only the platform can settle (a  *)
(* timer, getUserMedia, video.play(), FaceDetector.detect()).  Every action*)
(* below is one such platform event together with ALL the code it runs:    *)
(* the continuation of the awaiting function, its return into the callers  *)
(* and their code, up to the next platform await.  The continuations are   *)
(* operators from a record of the program state to the next one; an action *)
(* commits the record its handler computes.                                *)
(***************************************************************************)
EXTENDS Integers, Sequences, FiniteSets, TLC

VARIABLES
  score,                \* let score (line 125)
  cameraStream,         \* let cameraStream (126): Null or the id of a stream
  srcObject,            \* camVideo.srcObject (147, 160)
  micStream,            \* let micStream (127)
  audioContext,         \* let audioContext (128)
  micAnalyser,          \* let micAnalyser (129)
  micDataArray,         \* let micDataArray (130)
  canvas,               \* the pixels of camCanvas (123)
  motionActive,         \* let motionActive (131)
  motionHandler,        \* let motionHandler (132): Null or the id of a closure
  motionCounts,         \* let motionCounts (133)
  lastMotionTimestamp,  \* let lastMotionTimestamp (134)
  faceDetectorAvailable,\* let faceDetectorAvailable (135)
  needsPermission,      \* typeof DeviceMotionEvent.requestPermission === 'function' (286)
  geolocation,          \* 'geolocation' in navigator (317)
  orientReqs,           \* platform: the requestOrientationOnce calls whose timer is pending
  enterWaits,           \* platform: the waitForUserEnter calls made so far
  camOpen,              \* platform: camera streams opened and not stopped
  micOpen,              \* platform: microphone streams opened and not stopped
  ctxOpen,              \* platform: audio contexts created and not closed
  listeners,            \* platform: closures registered for 'devicemotion'
  permPending,          \* platform: closures whose requestPermission() is pending
  nextId,               \* platform: the next fresh object identity
  now,                  \* platform: Date.now()
  tasks,                \* the execLine invocations in flight, each a stack of frames
  entered,              \* history: number of command lines entered so far
  done,                 \* history: what the last finished execLine did
  counted,              \* history: Date.now() of the events counted since the last reset
  dropped               \* history: Date.now() of the last strong event not counted, or 0

vars == <<score, cameraStream, srcObject, micStream, audioContext, micAnalyser,
          micDataArray, canvas, motionActive, motionHandler, motionCounts,
          lastMotionTimestamp, faceDetectorAvailable, needsPermission,
          geolocation, orientReqs, enterWaits, camOpen,
          micOpen, ctxOpen, listeners, permPending, nextId, now, tasks, entered,
          done, counted, dropped>>

(***************************************************************************)
(* Bounds of the model.                                                    *)
(***************************************************************************)
MaxTasks == 2        \* execLine invocations in flight at once
MaxCmds == 2         \* command lines entered in one behaviour
FramePixels == 2     \* pixels of one camera frame
AudioLen == 2        \* samples of one analyser buffer
StartNow == 1000     \* Date.now() when the page loads
MaxNow == 2000       \* Date.now() stops advancing here

Null == 0
TaskIds == 1..MaxTasks

(***************************************************************************)
(* Values passed between frames: a completion is a returned value or a     *)
(* thrown error.  A measured number is the fraction num/den of the unit of *)
(* its kind; the null result is kept apart from every number.              *)
(***************************************************************************)
V(x) == [threw |-> FALSE, val |-> x]
Threw == [threw |-> TRUE, val |-> Null]
NullVal == [isNull |-> TRUE, num |-> 0, den |-> 1]
Num(n, d) == [isNull |-> FALSE, num |-> n, den |-> d]

\* x < y, for positive denominators
Less(x, y) == x.num * y.den < y.num * x.den
\* x * p/q
Times(x, p, q) == Num(x.num * p, x.den * q)
\* JavaScript's x || dflt on a number-or-null: null and 0 are falsy
OrElse(x, dflt) == IF x.isNull \/ x.num = 0 THEN dflt ELSE x

Max(a, b) == IF a >= b THEN a ELSE b

(***************************************************************************)
(* What the sensors deliver.  A frame is FramePixels RGB pixels; a buffer  *)
(* is AudioLen bytes.  The frames are uniform ones and a black/gray mix,   *)
(* and the buffers swing by a constant amount around 128, so that the mean *)
(* luminance and the RMS the code computes are exact in integers.          *)
(***************************************************************************)
Black == <<0, 0, 0>>
White == <<255, 255, 255>>
Gray == <<120, 120, 120>>
Uniform(px) == [p \in 1..FramePixels |-> px]
Mixed == [p \in 1..FramePixels |-> IF p = 1 THEN Black ELSE Gray]
BlankFrame == Uniform(Black)
NotReady == <<>>     \* the video element has no decoded frame to draw
Frames == {Uniform(Black), Uniform(White), Uniform(Gray), Mixed}

Buf(k) == [j \in 1..AudioLen |-> IF j % 2 = 1 THEN 128 - k ELSE 128 + k]
AudioMags == {0, 20}
AudioBufs == {Buf(k) : k \in AudioMags}
GraphOutcomes == {"ok", "ctor", "source"}

RECURSIVE SumSeq(_, _)
SumSeq(f, n) == IF n = 0 THEN 0 ELSE f[n] + SumSeq(f, n - 1)

(***************************************************************************)
(* The program state as one record, the inputs of the current event in     *)
(* field in, and the commit of a record as the next state.                 *)
(***************************************************************************)
NoInput == [frame |-> BlankFrame, audio |-> Buf(0), graph |-> "ok"]

Cur(inp) ==
  [score |-> score, cameraStream |-> cameraStream, srcObject |-> srcObject,
   micStream |-> micStream, audioContext |-> audioContext,
   micAnalyser |-> micAnalyser, micDataArray |-> micDataArray, canvas |-> canvas,
   motionActive |-> motionActive, motionHandler |-> motionHandler,
   motionCounts |-> motionCounts, lastMotionTimestamp |-> lastMotionTimestamp,
   faceDetectorAvailable |-> faceDetectorAvailable,
   needsPermission |-> needsPermission, geolocation |-> geolocation,
   orientReqs |-> orientReqs, enterWaits |-> enterWaits, camOpen |-> camOpen, micOpen |-> micOpen,
   ctxOpen |-> ctxOpen, listeners |-> listeners, permPending |-> permPending,
   nextId |-> nextId, now |-> now, tasks |-> tasks, entered |-> entered,
   done |-> done, counted |-> counted, dropped |-> dropped, in |-> inp]

Commit(s) ==
  /\ score' = s.score
  /\ cameraStream' = s.cameraStream
  /\ srcObject' = s.srcObject
  /\ micStream' = s.micStream
  /\ audioContext' = s.audioContext
  /\ micAnalyser' = s.micAnalyser
  /\ micDataArray' = s.micDataArray
  /\ canvas' = s.canvas
  /\ motionActive' = s.motionActive
  /\ motionHandler' = s.motionHandler
  /\ motionCounts' = s.motionCounts
  /\ lastMotionTimestamp' = s.lastMotionTimestamp
  /\ faceDetectorAvailable' = s.faceDetectorAvailable
  /\ needsPermission' = s.needsPermission
  /\ geolocation' = s.geolocation
  /\ orientReqs' = s.orientReqs
  /\ enterWaits' = s.enterWaits
  /\ camOpen' = s.camOpen
  /\ micOpen' = s.micOpen
  /\ ctxOpen' = s.ctxOpen
  /\ listeners' = s.listeners
  /\ permPending' = s.permPending
  /\ nextId' = s.nextId
  /\ now' = s.now
  /\ tasks' = s.tasks
  /\ entered' = s.entered
  /\ done' = s.done
  /\ counted' = s.counted
  /\ dropped' = s.dropped

(***************************************************************************)
(* Tasks and frames.                                                       *)
(***************************************************************************)
IdleTask == [stack |-> <<>>, wait |-> "none", cmd |-> "", acqFailed |-> FALSE,
             measured |-> <<>>, reads |-> 0, faceCalls |-> 0, seen |-> {},
             camAcquired |-> FALSE, blind |-> FALSE, unheld |-> FALSE,
             own |-> 0, count |-> 0, faceHits |-> 0, failed |-> {},
             retried |-> FALSE, waits |-> 0, deltas |-> <<>>, printed |-> {},
             claps |-> 0, reaction |-> -1, tock |-> FALSE]
NoRun == [cmd |-> "", outcome |-> "none", acqFailed |-> FALSE, measured |-> <<>>,
          reads |-> 0, faceCalls |-> 0, seen |-> {}, camAcquired |-> FALSE,
          blind |-> FALSE, unheld |-> FALSE, own |-> 0, count |-> 0,
          faceHits |-> 0, failed |-> {}, retried |-> FALSE, waits |-> 0,
          deltas |-> <<>>, printed |-> {}, claps |-> 0,
          reaction |-> -1, args |-> <<>>]

Top(s, t) == s.tasks[t].stack[Len(s.tasks[t].stack)]
Push(s, t, f) == [s EXCEPT !.tasks[t].stack = Append(@, f)]
Pop(s, t) == [s EXCEPT !.tasks[t].stack = SubSeq(@, 1, Len(@) - 1)]
Await(s, t, w) == [s EXCEPT !.tasks[t].wait = w]

RECURSIVE Resume(_, _, _)
\* a completion v reaches the caller on top of t's stack; with no caller left the
\* execLine invocation is over (the listeners of lines 963-970 drop its promise)
Return(s, t, v) ==
  IF s.tasks[t].stack = <<>>
    THEN [s EXCEPT !.tasks[t] = IdleTask]
    ELSE Resume(s, t, v)

\* history kept with the task: an acquisition of this run failed; the values its
\* measurements returned, in order; the number of sensor readings it took; the
\* number of calls of detectFace it made
MarkFailed(s, t) == [s EXCEPT !.tasks[t].acqFailed = TRUE]
Called(s, t) == [s EXCEPT !.tasks[t].faceCalls = @ + 1]
Read(s, t) == [s EXCEPT !.tasks[t].reads = @ + 1]
Note(s, t, x) == [s EXCEPT !.tasks[t].measured = Append(@, x)]
\* more history: an ensureCamera call of this run resolved; a frame was read
\* before any did and with no handle held (blind); a reading was taken with no
\* handle of its kind held
\* (unheld); the values of the readings of its measurements (seen); the count a
\* motion mission compared with its goal
MarkAcquired(s, t) == [s EXCEPT !.tasks[t].camAcquired = TRUE]
ReadFrame(s, t) ==
  [Read(s, t) EXCEPT !.tasks[t].blind =
                       @ \/ (~s.tasks[t].camAcquired /\ s.cameraStream = Null),
                     !.tasks[t].unheld = @ \/ s.cameraStream = Null]
ReadSound(s, t) ==
  [Read(s, t) EXCEPT !.tasks[t].unheld = @ \/ s.micStream = Null]
Saw(s, t, x) == [s EXCEPT !.tasks[t].seen = @ \cup {x}]
Compared(s, t, n) == [s EXCEPT !.tasks[t].count = n]
\* the sensors whose acquisition failed in this run (failed); getUserMedia was
\* called for a sensor whose acquisition had already failed in this run (retried);
\* the suspensions of the sampling loops on their interval timer (waits); the
\* changes this run made to the score (deltas); the measured values its println
\* calls showed (printed)
FailedOn(s, t, sensor) == [MarkFailed(s, t) EXCEPT !.tasks[t].failed = @ \cup {sensor}]
Attempt(s, t, sensor) ==
  [s EXCEPT !.tasks[t].retried = @ \/ sensor \in s.tasks[t].failed]
Suspended(s, t) == [s EXCEPT !.tasks[t].waits = @ + 1]
Scored(s, t, delta) == [s EXCEPT !.tasks[t].deltas = Append(@, delta)]
Shown(s, t, x) == [s EXCEPT !.tasks[t].printed = @ \cup {x}]
\* how far the readings of the run are towards two loud readings with a quiet
\* one between them (claps): 0 no loud reading yet, 1 loud readings without a
\* break, 2 a quiet reading after them, 3 a loud reading after that break
Heard(s, t, loud) ==
  [s EXCEPT !.tasks[t].claps =
     IF loud THEN (IF @ = 0 THEN 1 ELSE IF @ = 2 THEN 3 ELSE @)
             ELSE (IF @ = 1 THEN 2 ELSE @)]
\* a detectFace call of the run returned at least one face
FoundFace(s, t) == [s EXCEPT !.tasks[t].faceHits = @ + 1]
\* what a finished run leaves in done
Finished(s, t, cmd, outcome, args) ==
  [s EXCEPT !.done =
     [cmd |-> cmd, outcome |-> outcome, acqFailed |-> s.tasks[t].acqFailed,
      measured |-> s.tasks[t].measured, reads |-> s.tasks[t].reads,
      faceCalls |-> s.tasks[t].faceCalls, seen |-> s.tasks[t].seen,
      camAcquired |-> s.tasks[t].camAcquired, blind |-> s.tasks[t].blind,
      unheld |-> s.tasks[t].unheld, own |-> s.tasks[t].own,
      count |-> s.tasks[t].count, faceHits |-> s.tasks[t].faceHits,
      failed |-> s.tasks[t].failed, retried |-> s.tasks[t].retried,
      waits |-> s.tasks[t].waits, deltas |-> s.tasks[t].deltas,
      printed |-> s.tasks[t].printed, claps |-> s.tasks[t].claps,
      reaction |-> s.tasks[t].reaction, args |-> args]]

(***************************************************************************)
(* ensureCamera (143-154) and stopCamera (156-162).                        *)
(***************************************************************************)
ensureCamera(s, t) ==
  IF s.cameraStream # Null
    THEN Return(MarkAcquired(s, t), t, V(s.cameraStream))
    ELSE Await(Push(Attempt(s, t, "camera"), t,
                    [fn |-> "ensureCamera", pc |-> "L146"]), t, "gum_video")

ensureCamera_resume(s, t, f, v) ==
  IF f.pc = "L146"
    THEN IF v.threw
           THEN Return(FailedOn(s, t, "camera"), t, Threw)
           ELSE Await(Push([s EXCEPT !.cameraStream = v.val, !.srcObject = v.val],
                           t, [f EXCEPT !.pc = "L148"]), t, "play")
    ELSE Return(MarkAcquired(s, t), t, V(s.cameraStream))

stopCamera(s) ==
  IF s.cameraStream = Null
    THEN s
    ELSE [s EXCEPT !.camOpen = @ \ {s.cameraStream},
                   !.cameraStream = Null,
                   !.srcObject = Null]

(***************************************************************************)
(* ensureMic (164-180) and stopMic (182-188).  The audio graph is built in *)
(* the same step as the stream arrives; in.graph says whether the          *)
(* AudioContext constructor (168) or createMediaStreamSource (169) throws. *)
(***************************************************************************)
ensureMic(s, t) ==
  IF s.micStream # Null
    THEN Return(s, t, V(s.micStream))
    ELSE Await(Push(Attempt(s, t, "mic"), t, [fn |-> "ensureMic", pc |-> "L167"]),
               t, "gum_audio")

ensureMic_resume(s, t, f, v) ==
  IF v.threw
    THEN Return(FailedOn(s, t, "mic"), t, Threw)
    ELSE LET s1 == [s EXCEPT !.micStream = v.val]
             id == s.nextId
             s2 == [s1 EXCEPT !.audioContext = id, !.ctxOpen = @ \cup {id},
                              !.nextId = id + 1]
             s3 == [s2 EXCEPT !.micAnalyser = id, !.micDataArray = id]
         IN  CASE s.in.graph = "ctor" -> Return(FailedOn(s1, t, "mic"), t, Threw)
               [] s.in.graph = "source" -> Return(FailedOn(s2, t, "mic"), t, Threw)
               [] OTHER -> Return(s3, t, V(s3.micStream))

\* stopMic without the block of line 186: the audio graph is kept
stopMic_keepsGraph(s) ==
  IF s.micStream = Null
    THEN s
    ELSE [s EXCEPT !.micOpen = @ \ {s.micStream}, !.micStream = Null]

stopMic(s) ==
  IF s.micStream = Null
    THEN s
    ELSE LET s1 == [s EXCEPT !.micOpen = @ \ {s.micStream}, !.micStream = Null]
         IN  IF s1.audioContext # Null
               THEN [s1 EXCEPT !.ctxOpen = @ \ {s1.audioContext},
                               !.audioContext = Null,
                               !.micAnalyser = Null,
                               !.micDataArray = Null]
               ELSE s1

(***************************************************************************)
(* The canvas: assigning camCanvas.width clears it (204, 255, 436, ...);   *)
(* drawImage copies the video's current frame, and draws nothing when the  *)
(* video has no source or no decoded frame yet.                            *)
(***************************************************************************)
ResetCanvas(s) == [s EXCEPT !.canvas = BlankFrame]
DrawImage(s) ==
  IF s.srcObject # Null /\ s.in.frame # NotReady
    THEN [s EXCEPT !.canvas = s.in.frame]
    ELSE s

LumScale == 5000
\* 0.2126 R + 0.7152 G + 0.0722 B, in units of 1/LumScale
Luminance(px) == 1063 * px[1] + 3576 * px[2] + 361 * px[3]
\* the luminance unit of a measured brightness: sum / (width * height) of line 216
FrameLuminance(img) ==
  SumSeq([p \in 1..Len(img) |-> Luminance(img[p])], Len(img)) \div Len(img)

(***************************************************************************)
(* measureBrightness (199-221).                                            *)
(***************************************************************************)
\* the sample count without its Math.max(1, ...)
SampleCount_floorOnly(durationMs, sampleInterval) == durationMs \div sampleInterval

\* Math.max(1, Math.floor(durationMs / sampleInterval)) (206, 230)
SampleCount(durationMs, sampleInterval) == Max(1, durationMs \div sampleInterval)

\* the for loop of lines 208-219 from its test on: one reading and the timer of
\* line 218, or the return of line 220
measureBrightness_loop(s, t, f) ==
  IF f.i < f.samples
    THEN LET s1 == ReadFrame(DrawImage(s), t)
             lum == FrameLuminance(s1.canvas)
         IN  Await(Push(Suspended(Saw(s1, t, lum), t), t,
                        [f EXCEPT !.total = @ + lum, !.cnt = @ + 1, !.pc = "L218"]),
                   t, "timer")
    ELSE Return(Note(s, t, Num(f.total, f.cnt)), t, V(Num(f.total, f.cnt)))

measureBrightness(s, t, durationMs, sampleInterval) ==
  ensureCamera(Push(s, t, [fn |-> "measureBrightness", pc |-> "L201",
                           durationMs |-> durationMs,
                           sampleInterval |-> sampleInterval,
                           samples |-> 0, i |-> 0, total |-> 0, cnt |-> 0]), t)

measureBrightness_resume(s, t, f, v) ==
  IF f.pc = "L201"
    THEN IF v.threw
           THEN Return(Note(s, t, NullVal), t, V(NullVal))
           ELSE measureBrightness_loop(ResetCanvas(s), t,
                  [f EXCEPT !.samples = SampleCount(f.durationMs, f.sampleInterval)])
    ELSE measureBrightness_loop(s, t, [f EXCEPT !.i = @ + 1])

(***************************************************************************)
(* measureSoundLevel (224-245).  The RMS of a buffer is in units of 1/128. *)
(* Reading through a null analyser (233) throws a TypeError.               *)
(***************************************************************************)
Isqrt(n) == CHOOSE r \in 0..128 : r * r <= n /\ n < (r + 1) * (r + 1)
Rms(data) ==
  Isqrt(SumSeq([j \in 1..Len(data) |-> (data[j] - 128) * (data[j] - 128)],
               Len(data)) \div Len(data))

\* getByteTimeDomainData (233): the signal of the microphone, or silence (every
\* byte 128) once the analyser's context is closed and its stream stopped
AnalyserData(s, analyser) == IF analyser \in s.ctxOpen THEN s.in.audio ELSE Buf(0)

measureSoundLevel_loop(s, t, f) ==
  IF f.i < f.samples
    THEN IF f.analyser = Null
           THEN Return(s, t, Threw)
           ELSE LET rms == Rms(AnalyserData(s, f.analyser))
                IN  Await(Push(Suspended(Saw(ReadSound(s, t), t, rms), t), t,
                               [f EXCEPT !.total = @ + rms, !.cnt = @ + 1,
                                         !.pc = "L242"]), t, "timer")
    ELSE Return(Note(s, t, Num(f.total, f.cnt)), t, V(Num(f.total, f.cnt)))

measureSoundLevel(s, t, durationMs, sampleInterval) ==
  ensureMic(Push(s, t, [fn |-> "measureSoundLevel", pc |-> "L226",
                        durationMs |-> durationMs,
                        sampleInterval |-> sampleInterval, analyser |-> Null,
                        samples |-> 0, i |-> 0, total |-> 0, cnt |-> 0]), t)

measureSoundLevel_resume(s, t, f, v) ==
  IF f.pc = "L226"
    THEN IF v.threw
           THEN Return(Note(s, t, NullVal), t, V(NullVal))
           ELSE measureSoundLevel_loop(s, t,
                  [f EXCEPT !.analyser = s.micAnalyser,
                            !.samples = SampleCount(f.durationMs, f.sampleInterval)])
    ELSE measureSoundLevel_loop(s, t, [f EXCEPT !.i = @ + 1])

(***************************************************************************)
(* detectFace (248-267).  A detected face is its bounding box <<x, width>>;*)
(* the canvas is CanvasWidth wide (the || 320 of line 254).                *)
(***************************************************************************)
CanvasWidth == 320
FaceBoxes == {<<0, 64>>, <<128, 64>>, <<240, 64>>}
FaceLists == {<<>>} \cup {<<b>> : b \in FaceBoxes}
NoFaces(available) == [available |-> available, faces |-> <<>>]

\* the while loop of lines 257-264 from its test on
\* a variant of detectFace whose catch retries at once instead of leaving the loop
detectFace_resume_retries(s, t, f, v) ==
  CASE f.pc = "L250" ->
         IF v.threw \/ ~s.faceDetectorAvailable
           THEN Return(s, t, V(NoFaces(FALSE)))
           ELSE Await(Push(DrawImage(ResetCanvas(s)), t,
                           [f EXCEPT !.start = s.now, !.pc = "L260"]), t, "detect")
    [] f.pc = "L260" ->
         IF v.threw
           THEN Await(Push(DrawImage(s), t, f), t, "detect")
           ELSE IF Len(v.val) > 0
             THEN Return(FoundFace(s, t), t, V([available |-> TRUE, faces |-> v.val]))
             ELSE Await(Push(s, t, [f EXCEPT !.pc = "L263"]), t, "timer")
    [] OTHER ->
         IF s.now - f.start < f.timeoutMs
           THEN Await(Push(DrawImage(s), t, [f EXCEPT !.pc = "L260"]), t, "detect")
           ELSE Return(s, t, V(NoFaces(TRUE)))

detectFace_loop(s, t, f) ==
  IF s.now - f.start < f.timeoutMs
    THEN Await(Push(DrawImage(s), t, [f EXCEPT !.pc = "L260"]), t, "detect")
    ELSE Return(s, t, V(NoFaces(TRUE)))

detectFace(s, t, timeoutMs) ==
  ensureCamera(Push(Called(s, t), t, [fn |-> "detectFace", pc |-> "L250",
                                      timeoutMs |-> timeoutMs, start |-> 0]), t)

detectFace_resume(s, t, f, v) ==
  CASE f.pc = "L250" ->
         IF v.threw \/ ~s.faceDetectorAvailable
           THEN Return(s, t, V(NoFaces(FALSE)))
           ELSE detectFace_loop(ResetCanvas(s), t, [f EXCEPT !.start = s.now])
    [] f.pc = "L260" ->
         IF v.threw
           THEN Return(s, t, V(NoFaces(TRUE)))
           ELSE IF Len(v.val) > 0
             THEN Return(FoundFace(s, t), t, V([available |-> TRUE, faces |-> v.val]))
             ELSE Await(Push(s, t, [f EXCEPT !.pc = "L263"]), t, "timer")
    [] OTHER -> detectFace_loop(s, t, f)

(***************************************************************************)
(* Device motion: startMotionCounting (270-294) with the handler closure   *)
(* it creates (274-284), and stopMotionCounting (296-300).  An event is    *)
(* the acceleration vector it carries, or NoAccel when it carries none.    *)
(***************************************************************************)
MotionThreshold == 12
DebounceMs == 300
NoAccel == <<>>      \* an event with neither accelerationIncludingGravity nor acceleration
MotionEvents == {NoAccel, <<0, 0, 10>>, <<0, 12, 0>>, <<3, 4, 12>>}

MagSquared(ev) == IF ev = NoAccel THEN 0 ELSE ev[1] * ev[1] + ev[2] * ev[2] + ev[3] * ev[3]

\* the debounce test with && for ||
Debounced_both(last, t) == last = 0 /\ t - last > DebounceMs

Debounced(last, t) == last = 0 \/ t - last > DebounceMs

\* the closure without the assignment lastMotionTimestamp = t of line 282
motionHandlerCall_noStamp(s, ev) ==
  IF MagSquared(ev) > MotionThreshold * MotionThreshold
    THEN IF Debounced(s.lastMotionTimestamp, s.now)
           THEN [s EXCEPT !.motionCounts = @ + 1,
                          !.counted = Append(@, s.now)]
           ELSE [s EXCEPT !.dropped = s.now]
    ELSE s

\* one call of the closure of lines 274-284
motionHandlerCall(s, ev) ==
  IF MagSquared(ev) > MotionThreshold * MotionThreshold
    THEN IF Debounced(s.lastMotionTimestamp, s.now)
           THEN [s EXCEPT !.motionCounts = @ + 1,
                          !.lastMotionTimestamp = s.now,
                          !.counted = Append(@, s.now)]
           ELSE [s EXCEPT !.dropped = s.now]
    ELSE s

startMotionCounting(s) ==
  IF s.motionActive
    THEN s
    ELSE LET h == s.nextId
             s1 == [s EXCEPT !.motionCounts = 0, !.lastMotionTimestamp = 0,
                             !.counted = <<>>, !.dropped = 0,
                             !.motionHandler = h,
                             !.nextId = h + 1, !.motionActive = TRUE]
         IN  IF s.needsPermission
               THEN [s1 EXCEPT !.permPending = @ \cup {h}]
               ELSE [s1 EXCEPT !.listeners = @ \cup {h}]

stopMotionCounting(s) ==
  IF ~s.motionActive
    THEN s
    ELSE [s EXCEPT !.listeners = @ \ {s.motionHandler}, !.motionActive = FALSE]

(***************************************************************************)
(* Missions.  Each returns V(TRUE) or V(FALSE) to runMissionById.          *)
(***************************************************************************)
Lum(x) == Num(x * LumScale, 1)        \* the luminance x (0..255)
Level(p, q) == Num(p * 128, q)        \* the RMS p/q (0..1)

\* mission1 passing also at the threshold
mission1_resume_atMost(s, t, f, v) ==
  IF v.threw THEN Return(s, t, v)
  ELSE IF v.val.isNull THEN Return(s, t, V(FALSE))
  ELSE Return(s, t, V(~Less(Lum(35), v.val)))

\* mission1 (342-351)
mission1(s, t) ==
  measureBrightness(Push(s, t, [fn |-> "mission1", pc |-> "L345"]), t, 2000, 250)
mission1_resume(s, t, f, v) ==
  IF v.threw THEN Return(s, t, v)
  ELSE IF v.val.isNull THEN Return(s, t, V(FALSE))
  ELSE Return(Shown(s, t, v.val), t, V(Less(v.val, Lum(35))))

\* mission2 with the threshold 0.15
mission2_resume_loose(s, t, f, v) ==
  IF v.threw THEN Return(s, t, v)
  ELSE IF v.val.isNull THEN Return(s, t, V(FALSE))
  ELSE Return(s, t, V(Less(v.val, Level(15, 100))))

\* mission2 (354-363)
mission2(s, t) ==
  measureSoundLevel(Push(s, t, [fn |-> "mission2", pc |-> "L357"]), t, 6000, 250)
mission2_resume(s, t, f, v) ==
  IF v.threw THEN Return(s, t, v)
  ELSE IF v.val.isNull THEN Return(s, t, V(FALSE))
  ELSE Return(Shown(s, t, v.val), t, V(Less(v.val, Level(15, 1000))))

\* mission3 (366-386): its own devicemotion handler (370-374) sets the local
\* moved when the magnitude exceeds 3.5; it listens from line 382 to line 384
StillListening(f) == f.fn = "mission3" /\ f.pc = "L383"
mission3_listen(s, t) ==
  Await(Push(s, t, [fn |-> "mission3", pc |-> "L383", moved |-> FALSE]), t, "timer")
mission3(s, t) ==
  IF s.needsPermission
    THEN Await(Push(s, t, [fn |-> "mission3", pc |-> "L378", moved |-> FALSE]),
               t, "motion_permission")
    ELSE mission3_listen(s, t)
mission3_resume(s, t, f, v) ==
  IF f.pc = "L378"
    THEN IF v.threw \/ v.val # "granted"
           THEN Return(s, t, V(FALSE))
           ELSE mission3_listen(s, t)
    ELSE Return(s, t, V(~f.moved))
\* one call of the handler of lines 370-374, in the run t that registered it
mission3_handler(task, ev) ==
  LET n == Len(task.stack)
  IN  [task EXCEPT !.stack[n].moved = @ \/ 4 * MagSquared(ev) > 49,
                   !.seen = @ \cup {MagSquared(ev)}]

\* mission18 with the bounds of the range included
mission18_resume_inclusive(s, t, f, v) ==
  IF v.threw THEN Return(s, t, v)
  ELSE Return(s, t, V(/\ ~v.val.isNull
                      /\ ~Less(v.val, Level(1, 100))
                      /\ ~Less(Level(5, 100), v.val)))

\* mission18 (573-579)
mission18(s, t) ==
  measureSoundLevel(Push(s, t, [fn |-> "mission18", pc |-> "L576"]), t, 3000, 200)
mission18_resume(s, t, f, v) ==
  IF v.threw THEN Return(s, t, v)
  ELSE Return(s, t, V(/\ ~v.val.isNull
                      /\ Less(Level(1, 100), v.val)
                      /\ Less(v.val, Level(5, 100))))

(***************************************************************************)
(* Geolocation (315-320).  A position is a latitude and a longitude in     *)
(* units of 1e-5 degree; NoFix is the null the promise resolves with.      *)
(* The platform answers a getCurrentPosition call through one of its two   *)
(* callbacks: the success callback with a position, or the error callback  *)
(* (denied, unavailable, or the timeout option elapsed).                   *)
(***************************************************************************)
NoFix == [isNull |-> TRUE, lat |-> 0, lon |-> 0]
Fix(lat, lon) == [isNull |-> FALSE, lat |-> lat, lon |-> lon]
GeoFixes == {Fix(0, 0), Fix(7, 0), Fix(0, 8)}
GeoSuccess(pos) == [ok |-> TRUE, pos |-> pos]
GeoError == [ok |-> FALSE, pos |-> NoFix]
GeoCallbacks == {GeoSuccess(p) : p \in GeoFixes} \cup {GeoError}

\* a variant whose error callback rejects the promise
getGeoPosition_resume_rejects(s, t, f, v) ==
  IF v.val.ok THEN Return(Note(s, t, v.val.pos), t, V(v.val.pos))
  ELSE Return(s, t, Threw)

\* line 317 resolves with null at once; line 318 leaves the promise to the callbacks
getGeoPosition(s, t, timeoutMs) ==
  IF ~s.geolocation
    THEN Return(Note(s, t, NoFix), t, V(NoFix))
    ELSE Await(Push(s, t, [fn |-> "getGeoPosition", timeout |-> timeoutMs]),
               t, "geo")
\* pos => resolve(pos), err => resolve(null)
getGeoPosition_resume(s, t, f, v) ==
  LET r == IF v.val.ok THEN v.val.pos ELSE NoFix
  IN  Return(Note(s, t, r), t, V(r))

\* mission12 (506-512)
mission12(s, t) ==
  getGeoPosition(Push(s, t, [fn |-> "mission12", pc |-> "L509"]), t, 7000)
mission12_resume(s, t, f, v) ==
  IF v.threw THEN Return(s, t, v)
  ELSE Return(s, t, V(~v.val.isNull))

\* lines 648-651 in centimetres: a unit of latitude is 111 cm, and so is a unit of
\* longitude at the latitudes of GeoFixes, whose cosine is 1 to eleven decimals;
\* dist > 8 compared on the squares
MovedFar(p1, p2) ==
  LET dx == (p2.lat - p1.lat) * 111
      dy == (p2.lon - p1.lon) * 111
  IN  dx * dx + dy * dy > 800 * 800

\* mission24 (638-653)
mission24(s, t) ==
  getGeoPosition(Push(s, t, [fn |-> "mission24", pc |-> "L642", p1 |-> NoFix]),
                 t, 7000)
mission24_resume(s, t, f, v) ==
  IF v.threw THEN Return(s, t, v)
  ELSE IF f.pc = "L642"
    THEN IF v.val.isNull THEN Return(s, t, V(FALSE))
         ELSE Await(Push(s, t, [f EXCEPT !.pc = "L646", !.p1 = v.val]), t, "timer")
  ELSE IF f.pc = "L646"
    THEN getGeoPosition(Push(s, t, [f EXCEPT !.pc = "L647"]), t, 7000)
  ELSE IF v.val.isNull THEN Return(s, t, V(FALSE))
  ELSE Return(s, t, V(MovedFar(f.p1, v.val)))

(***************************************************************************)
(* Orientation (303-312).  Every call of requestOrientationOnce makes a    *)
(* promise, a listener and a timer; orientReqs keeps one record per call:  *)
(* whether its handler is registered for 'deviceorientation', whether its  *)
(* timer is still to fire, whether its promise is settled and with what.   *)
(* An event carries alpha, beta and gamma, each an angle or null (Null).   *)
(***************************************************************************)
NoReading == [isNull |-> TRUE, alpha |-> Null, beta |-> Null, gamma |-> Null]
Reading(e) == [isNull |-> FALSE, alpha |-> e.alpha, beta |-> e.beta,
               gamma |-> e.gamma]
OrientationEvents == {[alpha |-> Null, beta |-> Null, gamma |-> Null],
                      [alpha |-> 40, beta |-> 70, gamma |-> 40],
                      [alpha |-> 50, beta |-> 80, gamma |-> 45]}
Abs(x) == IF x < 0 THEN -x ELSE x
\* x || 0
OrZero(x) == IF x = Null THEN 0 ELSE x

Req(s, id) == CHOOSE r \in s.orientReqs : r.id = id
SetReq(s, id, r) == [s EXCEPT !.orientReqs = (@ \ {Req(s, id)}) \cup {r}]
\* window.removeEventListener('deviceorientation', handler)
Unlisten(s, id) == SetReq(s, id, [Req(s, id) EXCEPT !.listening = FALSE])
\* resolve(x): settles the promise and schedules the awaiting mission, once
resolveOrientation(s, id, x) ==
  LET r == Req(s, id)
  IN  IF r.settled THEN s
      ELSE Resume([SetReq(s, id, [r EXCEPT !.settled = TRUE, !.value = x])
                     EXCEPT !.tasks[r.task].wait = "none",
                            !.tasks[r.task].tock = ~@],
                  r.task, V(x))

\* a variant of the handler that stays registered
orientationHandler_stays(s, id, e) == resolveOrientation(s, id, Reading(e))

\* function handler(e) (305-308)
orientationHandler(s, id, e) == resolveOrientation(Unlisten(s, id), id, Reading(e))
\* the callback of the setTimeout of line 310
orientationTimeout(s, id) ==
  LET s1 == resolveOrientation(Unlisten(s, id), id, NoReading)
  IN  SetReq(s1, id, [Req(s1, id) EXCEPT !.timer = FALSE])

requestOrientationOnce(s, t, timeoutMs) ==
  LET r == [id |-> s.nextId, task |-> t, timeout |-> timeoutMs, listening |-> TRUE,
            timer |-> TRUE, settled |-> FALSE, value |-> NoReading]
      s1 == [s EXCEPT !.orientReqs = @ \cup {r}, !.nextId = @ + 1]
  IN  Await(Push(s1, t, [fn |-> "requestOrientationOnce", req |-> r.id]),
            t, "orientation")
requestOrientationOnce_resume(s, t, f, v) == Return(Note(s, t, v.val), t, v)

\* mission11 (495-503)
mission11(s, t) ==
  requestOrientationOnce(Push(s, t, [fn |-> "mission11", pc |-> "L497"]), t, 8000)
mission11_resume(s, t, f, v) ==
  IF v.threw THEN Return(s, t, v)
  ELSE Return(s, t, V(~v.val.isNull /\ Abs(OrZero(v.val.gamma)) > 40))

\* missions 28 and 35: a reading, a timer, a second reading, and the change of
\* one angle between them compared with a limit
turnMission(s, t, id) ==
  requestOrientationOnce(Push(s, t, [fn |-> id, pc |-> "first", r1 |-> NoReading]),
                         t, 1200)
\* a variant that compares the angles without looking at the readings first
turnMission_resume_unguarded(s, t, f, v, angle, limit) ==
  IF v.threw THEN Return(s, t, v)
  ELSE IF f.pc = "first"
    THEN Await(Push(s, t, [f EXCEPT !.pc = "timer", !.r1 = v.val]), t, "timer")
  ELSE IF f.pc = "timer"
    THEN requestOrientationOnce(Push(s, t, [f EXCEPT !.pc = "second"]), t, 1200)
  ELSE Return(s, t, V(Abs(OrZero(v.val[angle]) - OrZero(f.r1[angle])) > limit))

turnMission_resume(s, t, f, v, angle, limit) ==
  IF v.threw THEN Return(s, t, v)
  ELSE IF f.pc = "first"
    THEN Await(Push(s, t, [f EXCEPT !.pc = "timer", !.r1 = v.val]), t, "timer")
  ELSE IF f.pc = "timer"
    THEN requestOrientationOnce(Push(s, t, [f EXCEPT !.pc = "second"]), t, 1200)
  ELSE Return(s, t, V(/\ ~f.r1.isNull
                      /\ ~v.val.isNull
                      /\ Abs(OrZero(v.val[angle]) - OrZero(f.r1[angle])) > limit))
\* mission28 (696-708)
mission28(s, t) == turnMission(s, t, "mission28")
mission28_resume(s, t, f, v) == turnMission_resume(s, t, f, v, "alpha", 40)
\* mission35 (803-811)
mission35(s, t) == turnMission(s, t, "mission35")
mission35_resume(s, t, f, v) == turnMission_resume(s, t, f, v, "beta", 70)

\* the motion-counting missions: startMotionCounting(); motionCounts = 0; a timer;
\* stopMotionCounting(); the comparison with the mission's goal
motionMission(s, t, id) ==
  LET s1 == [startMotionCounting(s) EXCEPT !.motionCounts = 0]
  IN  Await(Push(s1, t, [fn |-> id, pc |-> "timer"]), t, "timer")
motionMission_resume(s, t, goal) ==
  LET s1 == stopMotionCounting(s)
  IN  Return(Compared(s1, t, s1.motionCounts), t, V(s1.motionCounts >= goal))

\* mission5 (405-416)
mission5(s, t) == motionMission(s, t, "mission5")
mission5_resume(s, t, f, v) == motionMission_resume(s, t, 18)

\* mission16 (552-561)
mission16(s, t) == motionMission(s, t, "mission16")
mission16_resume(s, t, f, v) == motionMission_resume(s, t, 4)

\* mission19 (582-590)
mission19(s, t) == motionMission(s, t, "mission19")
mission19_resume(s, t, f, v) == motionMission_resume(s, t, 35)

\* mission39 (856-865)
mission39(s, t) == motionMission(s, t, "mission39")
mission39_resume(s, t, f, v) == motionMission_resume(s, t, 8)

\* the sampling loops of mission7 (438-445); ch is the byte of the pixel summed
ChannelSum(img, ch) == SumSeq([p \in 1..Len(img) |-> img[p][ch]], Len(img))
mission7_sample(s, t, f) ==
  LET s1 == ReadFrame(DrawImage(s), t)
  IN  Await(Push(s1, t, [f EXCEPT !.totalBlue = @ + ChannelSum(s1.canvas, 3),
                                  !.pc = "L444"]), t, "timer")

\* mission7 (431-449): the value of the .catch callback is dropped, and the code
\* goes on to sample whether or not the camera was acquired
mission7(s, t) ==
  ensureCamera(Push(s, t, [fn |-> "mission7", pc |-> "L434", i |-> 0,
                           totalBlue |-> 0, samples |-> 4]), t)
mission7_resume(s, t, f, v) ==
  IF f.pc = "L434"
    THEN mission7_sample(ResetCanvas(s), t, f)
    ELSE IF f.i + 1 < f.samples
           THEN mission7_sample(s, t, [f EXCEPT !.i = @ + 1])
           ELSE Return(s, t, V(f.totalBlue > 70 * FramePixels * f.samples))

(***************************************************************************)
(* waitForUserEnter (917-933).  Every call makes a promise, a keydown       *)
(* listener on the command field, a click listener on the run button and a *)
(* timer; enterWaits keeps one record per call: when it was made, which of *)
(* its listeners are registered, whether its timer is still to fire, its   *)
(* done flag, and whether its promise is settled, with what and when.      *)
(* heard is history: an Enter keydown or a click came after the call and   *)
(* before the callback of its timer ran.                                   *)
(***************************************************************************)
EnterWait(s, id) == CHOOSE r \in s.enterWaits : r.id = id
SetEnterWait(s, id, r) ==
  [s EXCEPT !.enterWaits = (@ \ {EnterWait(s, id)}) \cup {r}]
\* function cleanup() (928)
cleanup(s, id) ==
  SetEnterWait(s, id, [EnterWait(s, id) EXCEPT !.keydown = FALSE, !.click = FALSE])
\* done = true (923, 927)
setDone(s, id) == SetEnterWait(s, id, [EnterWait(s, id) EXCEPT !.done = TRUE])
\* resolve(x): settles the promise and schedules the awaiting mission, once
resolveEnter(s, id, x) ==
  LET r == EnterWait(s, id)
  IN  IF r.settled THEN s
      ELSE Resume([SetEnterWait(s, id, [r EXCEPT !.settled = TRUE, !.value = x,
                                                 !.at = s.now])
                     EXCEPT !.tasks[r.task].wait = "none",
                            !.tasks[r.task].tock = ~@],
                  r.task, V(x))

\* a variant of the keydown handler that takes any key
handler_anykey(s, id, key) == resolveEnter(setDone(cleanup(s, id), id), id, TRUE)

\* function handler(e) (920-926)
handler(s, id, key) ==
  IF key = "Enter" THEN resolveEnter(setDone(cleanup(s, id), id), id, TRUE) ELSE s
\* function btnHandler() (927)
btnHandler(s, id) == resolveEnter(setDone(cleanup(s, id), id), id, TRUE)
\* the callback of the setTimeout of line 931
enterTimeout(s, id) ==
  LET s1 == SetEnterWait(s, id, [EnterWait(s, id) EXCEPT !.timer = FALSE])
  IN  IF ~EnterWait(s1, id).done THEN resolveEnter(cleanup(s1, id), id, FALSE)
      ELSE s1

waitForUserEnter(s, t, timeout) ==
  LET r == [id |-> s.nextId, task |-> t, start |-> s.now, timeout |-> timeout,
            keydown |-> TRUE, click |-> TRUE, timer |-> TRUE, done |-> FALSE,
            settled |-> FALSE, value |-> FALSE, at |-> 0, heard |-> FALSE]
      s1 == [s EXCEPT !.enterWaits = @ \cup {r}, !.nextId = @ + 1]
  IN  Await(Push(s1, t, [fn |-> "waitForUserEnter", req |-> r.id]), t, "enter")
waitForUserEnter_resume(s, t, f, v) == Return(s, t, v)

\* mission6 (419-428): dt is Infinity when the wait resolved false
mission6(s, t) ==
  Await(Push(s, t, [fn |-> "mission6", pc |-> "L422", start |-> 0]), t, "timer")
mission6_resume(s, t, f, v) ==
  IF f.pc = "L422"
    THEN waitForUserEnter(Push(s, t, [f EXCEPT !.pc = "L425", !.start = s.now]),
                          t, 4000)
  ELSE IF v.threw THEN Return(s, t, v)
  ELSE IF v.val /\ s.now - f.start < 2000
    THEN Return(Shown(s, t, Num(s.now - f.start, 1)), t, V(TRUE))
  ELSE Return(s, t, V(FALSE))

\* mission17 (564-570): prints the verdict only
mission17(s, t) ==
  measureBrightness(Push(s, t, [fn |-> "mission17", pc |-> "L567"]), t, 1500, 200)
mission17_resume(s, t, f, v) ==
  IF v.threw THEN Return(s, t, v)
  ELSE Return(s, t, V(~v.val.isNull /\ Less(Lum(120), v.val)))

\* mission21 (606-611): prints the verdict only
mission21(s, t) ==
  measureSoundLevel(Push(s, t, [fn |-> "mission21", pc |-> "L609"]), t, 10000, 250)
mission21_resume(s, t, f, v) ==
  IF v.threw THEN Return(s, t, v)
  ELSE Return(s, t, V(~v.val.isNull /\ Less(v.val, Level(15, 1000))))

\* mission26 (677-685): two measurements with a timer in between
mission26(s, t) ==
  measureBrightness(Push(s, t, [fn |-> "mission26", pc |-> "L680",
                                lum1 |-> NullVal]), t, 600, 200)
mission26_resume(s, t, f, v) ==
  IF v.threw THEN Return(s, t, v)
  ELSE IF f.pc = "L680"
    THEN Await(Push(s, t, [f EXCEPT !.pc = "L681", !.lum1 = v.val]), t, "timer")
  ELSE IF f.pc = "L681"
    THEN measureBrightness(Push(s, t, [f EXCEPT !.pc = "L682"]), t, 600, 200)
  ELSE Return(s, t, V(/\ ~f.lum1.isNull
                      /\ ~v.val.isNull
                      /\ Less(Times(v.val, 2, 1), f.lum1)))

\* mission33 (769-790): the for loop of lines 778-785 from its test on; of
\* rmsSamples the frame keeps the number of readings above 0.08, which is all
\* that the filter of line 787 takes from it
mission33_loop(s, t, f) ==
  IF f.i < 3000 \div 100
    THEN IF f.analyser = Null
           THEN Return(s, t, Threw)
           ELSE LET rms == Rms(AnalyserData(s, f.analyser))
                    loud == Less(Level(8, 100), Num(rms, 1))
                IN  Await(Push(Suspended(Heard(ReadSound(s, t), t, loud), t), t,
                               [f EXCEPT !.peaks = IF loud THEN @ + 1 ELSE @,
                                         !.pc = "L784"]), t, "timer")
    ELSE Return(Shown(s, t, Num(f.peaks, 1)), t, V(f.peaks >= 2))

mission33(s, t) ==
  ensureMic(Push(s, t, [fn |-> "mission33", pc |-> "L774", analyser |-> Null,
                        i |-> 0, peaks |-> 0]), t)

mission33_resume(s, t, f, v) ==
  IF f.pc = "L774"
    THEN IF v.threw
           THEN Return(s, t, V(FALSE))
           ELSE mission33_loop(s, t, [f EXCEPT !.analyser = s.micAnalyser])
    ELSE mission33_loop(s, t, [f EXCEPT !.i = @ + 1])

\* mission38 (845-853)
mission38(s, t) ==
  measureSoundLevel(Push(s, t, [fn |-> "mission38", pc |-> "L848",
                                clap |-> NullVal]), t, 1200, 120)
mission38_resume(s, t, f, v) ==
  IF v.threw THEN Return(s, t, v)
  ELSE IF f.pc = "L848"
    THEN Await(Push(s, t, [f EXCEPT !.pc = "L849", !.clap = v.val]), t, "timer")
  ELSE IF f.pc = "L849"
    THEN measureSoundLevel(Push(s, t, [f EXCEPT !.pc = "L850"]), t, 4000, 200)
  ELSE Return(s, t, V(/\ ~f.clap.isNull
                      /\ Less(Level(8, 100), f.clap)
                      /\ ~v.val.isNull
                      /\ Less(v.val, Level(2, 100))))

\* the sampling loops of missions 25 and 30: draw, add the mean of one channel,
\* wait; after the last sample the average is compared with 70
colourSample(s, t, f) ==
  LET s1 == ReadFrame(DrawImage(s), t)
  IN  Await(Push(s1, t, [f EXCEPT !.total = @ + ChannelSum(s1.canvas, f.channel),
                                  !.pc = "wait"]), t, "timer")
colourLoop(s, t, f) ==
  IF f.i + 1 < f.samples
    THEN colourSample(s, t, [f EXCEPT !.i = @ + 1])
    ELSE Return(s, t, V(f.total > 70 * FramePixels * f.samples))

\* mission25 (656-674): the .catch of line 659 only prints
mission25(s, t) ==
  ensureCamera(Push(s, t, [fn |-> "mission25", pc |-> "L659", i |-> 0, total |-> 0,
                           samples |-> 4, channel |-> 1]), t)
mission25_resume(s, t, f, v) ==
  IF f.pc = "L659" THEN colourSample(ResetCanvas(s), t, f)
  ELSE colourLoop(s, t, f)

\* mission30 (731-748): no call of ensureCamera
mission30(s, t) ==
  colourSample(ResetCanvas(s), t, [fn |-> "mission30", pc |-> "L736", i |-> 0,
                                   total |-> 0, samples |-> 3, channel |-> 2])
mission30_resume(s, t, f, v) == colourLoop(s, t, f)

\* mission15 (542-549)
mission15(s, t) ==
  measureBrightness(Push(s, t, [fn |-> "mission15", pc |-> "L545",
                                lumBefore |-> NullVal]), t, 600, 200)
mission15_resume(s, t, f, v) ==
  IF v.threw THEN Return(s, t, v)
  ELSE IF f.pc = "L545"
    THEN measureBrightness(Push(s, t, [f EXCEPT !.pc = "L546", !.lumBefore = v.val]),
                           t, 1200, 300)
    ELSE Return(s, t, V(/\ ~v.val.isNull
                        /\ Less(v.val, Times(OrElse(f.lumBefore, Lum(100)), 1, 5))))

\* mission29 (710-728): as in mission7 the .catch only prints
mission29(s, t) ==
  ensureCamera(Push(s, t, [fn |-> "mission29", pc |-> "L713"]), t)
mission29_resume(s, t, f, v) ==
  LET s1 == ReadFrame(DrawImage(ResetCanvas(s)), t)
      d == s1.canvas
      dark == Cardinality({p \in 1..Len(d) : Luminance(d[p]) < 40 * LumScale})
      bright == Cardinality({p \in 1..Len(d) : Luminance(d[p]) > 215 * LumScale})
  IN  Return(s1, t, V(100 * (dark + bright) > 18 * FramePixels))

\* mission34 (793-800)
mission34(s, t) ==
  measureBrightness(Push(s, t, [fn |-> "mission34", pc |-> "L796",
                                before |-> NullVal]), t, 800, 200)
mission34_resume(s, t, f, v) ==
  IF v.threw THEN Return(s, t, v)
  ELSE IF f.pc = "L796"
    THEN measureBrightness(Push(s, t, [f EXCEPT !.pc = "L797", !.before = v.val]),
                           t, 1200, 150)
    ELSE Return(s, t, V(/\ ~v.val.isNull
                        /\ Less(Times(OrElse(f.before, Lum(20)), 9, 5), v.val)))

\* twice the centre of a bounding box: 2 * (box.x + box.width / 2)
Cx2(box) == 2 * box[1] + box[2]
\* cx < camCanvas.width * tenths / 10, and cx > camCanvas.width * tenths / 10
LeftOf(box, tenths) == 10 * Cx2(box) < 2 * tenths * CanvasWidth
RightOf(box, tenths) == 10 * Cx2(box) > 2 * tenths * CanvasWidth
Present(res) == Len(res.faces) > 0

\* mission4 without the test of line 391
mission4_unguarded(s, t) ==
  detectFace(Push(s, t, [fn |-> "mission4", pc |-> "L393"]), t, 4000)

\* mission4 (389-402)
mission4(s, t) ==
  IF ~s.faceDetectorAvailable
    THEN Return(s, t, V(FALSE))
    ELSE detectFace(Push(s, t, [fn |-> "mission4", pc |-> "L393"]), t, 4000)
mission4_resume(s, t, f, v) ==
  Return(s, t, V(v.val.available /\ Present(v.val)))

\* mission9 (463-473): without the detector a usable camera is a pass
mission9(s, t) ==
  IF ~s.faceDetectorAvailable
    THEN ensureCamera(Push(s, t, [fn |-> "mission9", pc |-> "L467"]), t)
    ELSE detectFace(Push(s, t, [fn |-> "mission9", pc |-> "L470"]), t, 3000)
mission9_resume(s, t, f, v) ==
  IF f.pc = "L467"
    THEN Return(s, t, V(~v.threw))
    ELSE Return(s, t, V(v.val.available /\ Present(v.val)))

\* mission14 (532-539): both awaits swallow a rejection
mission14(s, t) ==
  LET s1 == Push(s, t, [fn |-> "mission14", pc |-> "L535", faceRes |-> NoFaces(FALSE)])
  IN  IF s.faceDetectorAvailable THEN detectFace(s1, t, 2500) ELSE ensureCamera(s1, t)
mission14_resume(s, t, f, v) ==
  IF f.pc = "L535"
    THEN measureSoundLevel(
           Push(s, t, [f EXCEPT !.pc = "L536",
                                !.faceRes = IF s.faceDetectorAvailable THEN v.val
                                            ELSE NoFaces(FALSE)]),
           t, 2500, 250)
    ELSE LET sound == IF v.threw THEN NullVal ELSE v.val
         IN  Return(s, t, V(/\ Present(f.faceRes)
                            /\ ~sound.isNull
                            /\ Less(sound, Level(2, 100))))

\* mission20 (592-603)
mission20(s, t) ==
  IF ~s.faceDetectorAvailable
    THEN Return(s, t, V(FALSE))
    ELSE detectFace(Push(s, t, [fn |-> "mission20", pc |-> "L597",
                                present1 |-> FALSE]), t, 1200)
mission20_resume(s, t, f, v) ==
  CASE f.pc = "L597" ->
         Await(Push(s, t, [f EXCEPT !.pc = "L598", !.present1 = Present(v.val)]),
               t, "timer")
    [] f.pc = "L598" -> detectFace(Push(s, t, [f EXCEPT !.pc = "L599"]), t, 1200)
    [] OTHER -> Return(s, t, V(f.present1 /\ ~Present(v.val)))

\* mission23 (621-635)
mission23(s, t) ==
  IF ~s.faceDetectorAvailable
    THEN Return(s, t, V(FALSE))
    ELSE detectFace(Push(s, t, [fn |-> "mission23", pc |-> "L626"]), t, 3000)
mission23_resume(s, t, f, v) ==
  Return(s, t, V(/\ Present(v.val)
                 /\ LeftOf(v.val.faces[1], 3) \/ RightOf(v.val.faces[1], 7)))

\* mission32 (759-767)
mission32(s, t) ==
  IF ~s.faceDetectorAvailable
    THEN Return(s, t, V(FALSE))
    ELSE detectFace(Push(s, t, [fn |-> "mission32", pc |-> "L764"]), t, 3000)
mission32_resume(s, t, f, v) == Return(s, t, V(Present(v.val)))

\* mission37 (822-842)
mission37(s, t) ==
  IF ~s.faceDetectorAvailable
    THEN Return(s, t, V(FALSE))
    ELSE detectFace(Push(s, t, [fn |-> "mission37", pc |-> "L828", left |-> FALSE]),
                    t, 2000)
mission37_resume(s, t, f, v) ==
  CASE f.pc = "L828" ->
         Await(Push(s, t, [f EXCEPT !.pc = "L833",
                                    !.left = /\ Present(v.val)
                                             /\ LeftOf(v.val.faces[1], 4)]),
               t, "timer")
    [] f.pc = "L833" -> detectFace(Push(s, t, [f EXCEPT !.pc = "L835"]), t, 2000)
    [] OTHER -> Return(s, t, V(/\ f.left
                               /\ Present(v.val)
                               /\ RightOf(v.val.faces[1], 6)))

\* mission40 (868-883): a rejection of measureSoundLevel is not caught
mission40(s, t) ==
  LET s1 == Push(s, t, [fn |-> "mission40", pc |-> "L871", faceOk |-> FALSE,
                        micOk |-> FALSE])
  IN  IF s.faceDetectorAvailable
        THEN detectFace(s1, t, 2000)
        ELSE measureSoundLevel(Push(s, t, [fn |-> "mission40", pc |-> "L872",
                                           faceOk |-> FALSE, micOk |-> FALSE]),
                               t, 1200, 100)
mission40_resume(s, t, f, v) ==
  CASE f.pc = "L871" ->
         measureSoundLevel(Push(s, t, [f EXCEPT !.pc = "L872",
                                                !.faceOk = Present(v.val)]),
                           t, 1200, 100)
    [] f.pc = "L872" ->
         IF v.threw
           THEN Return(s, t, v)
           ELSE LET s1 == [startMotionCounting(s) EXCEPT !.motionCounts = 0]
                    micOk == ~v.val.isNull /\ Less(Level(8, 100), v.val)
                IN  Await(Push(s1, t, [f EXCEPT !.pc = "L874", !.micOk = micOk]),
                          t, "timer")
    [] OTHER ->
         LET s1 == stopMotionCounting(s)
         IN  Return(Compared(s1, t, s1.motionCounts), t,
                    V(f.faceOk /\ f.micOk /\ s1.motionCounts >= 2))

(***************************************************************************)
(* runMissionById (897-914) and execLine (935-961).                        *)
(***************************************************************************)
FaceMissions == {"mission4", "mission9", "mission14", "mission20", "mission23",
                 "mission32", "mission37", "mission40"}
Missions == {"mission1", "mission2", "mission3", "mission5", "mission6",
             "mission7", "mission11",
             "mission12", "mission15", "mission16", "mission17", "mission18",
             "mission19", "mission21",
             "mission24", "mission25", "mission26", "mission28", "mission29",
             "mission30", "mission33", "mission34", "mission35", "mission38",
             "mission39"}
              \cup FaceMissions

MissionRun(s, t, id) ==
  CASE id = "mission1" -> mission1(s, t)
    [] id = "mission2" -> mission2(s, t)
    [] id = "mission3" -> mission3(s, t)
    [] id = "mission5" -> mission5(s, t)
    [] id = "mission7" -> mission7(s, t)
    [] id = "mission11" -> mission11(s, t)
    [] id = "mission28" -> mission28(s, t)
    [] id = "mission35" -> mission35(s, t)
    [] id = "mission25" -> mission25(s, t)
    [] id = "mission30" -> mission30(s, t)
    [] id = "mission26" -> mission26(s, t)
    [] id = "mission33" -> mission33(s, t)
    [] id = "mission38" -> mission38(s, t)
    [] id = "mission6" -> mission6(s, t)
    [] id = "mission17" -> mission17(s, t)
    [] id = "mission21" -> mission21(s, t)
    [] id = "mission12" -> mission12(s, t)
    [] id = "mission24" -> mission24(s, t)
    [] id = "mission15" -> mission15(s, t)
    [] id = "mission16" -> mission16(s, t)
    [] id = "mission18" -> mission18(s, t)
    [] id = "mission19" -> mission19(s, t)
    [] id = "mission39" -> mission39(s, t)
    [] id = "mission29" -> mission29(s, t)
    [] id = "mission34" -> mission34(s, t)
    [] id = "mission4" -> mission4(s, t)
    [] id = "mission9" -> mission9(s, t)
    [] id = "mission14" -> mission14(s, t)
    [] id = "mission20" -> mission20(s, t)
    [] id = "mission23" -> mission23(s, t)
    [] id = "mission32" -> mission32(s, t)
    [] id = "mission37" -> mission37(s, t)
    [] id = "mission40" -> mission40(s, t)

\* addScore (140)
addScore(s, delta) == [s EXCEPT !.score = @ + delta]

\* one penalty for every mission
Penalty_flat(id) == -5

Penalty(id) == IF id = "mission40" THEN -10 ELSE -5

runMissionById(s, t, id) ==
  IF id \notin Missions
    THEN Return(s, t, V(Null))
    ELSE MissionRun(Push(s, t, [fn |-> "runMissionById", id |-> id]), t, id)

runMissionById_resume(s, t, f, v) ==
  LET outcome == IF v.threw THEN "error" ELSE IF v.val THEN "pass" ELSE "fail"
      delta == IF v.val THEN 10 ELSE Penalty(f.id)
      s1 == IF v.threw THEN s ELSE Scored(addScore(s, delta), t, delta)
  IN  Return(Finished(s1, t, f.id, outcome, <<>>), t, V(Null))

execLine(s, t, c) ==
  CASE c = "allow" -> ensureCamera(Push(s, t, [fn |-> "execLine", pc |-> "L949"]), t)
    [] c = "stopcam" ->
         Return([stopCamera(s) EXCEPT !.done =
                   [NoRun EXCEPT !.cmd = c,
                                 !.outcome = IF s.cameraStream # Null THEN "released"
                                             ELSE "nothing held"]],
                t, V(Null))
    [] c = "stopmic" ->
         Return([stopMic(s) EXCEPT !.done =
                   [NoRun EXCEPT !.cmd = c,
                                 !.outcome = IF s.micStream # Null THEN "released"
                                             ELSE "nothing held"]],
                t, V(Null))
    [] c \in Missions \cup {"mission41"} ->
         runMissionById(Push(s, t, [fn |-> "execLine", pc |-> "L957"]), t, c)
    [] OTHER -> Return(s, t, V(Null))

execLine_resume(s, t, f, v) ==
  IF f.pc = "L949"
    THEN ensureMic(Push(s, t, [f EXCEPT !.pc = "L950"]), t)
    ELSE Return(s, t, V(Null))

(***************************************************************************)
(* A direct caller of measureBrightness / measureSoundLevel with arguments *)
(* of its choice, as the missions call them at lines 345, 357, 545, ...;   *)
(* it keeps what the call did.                                             *)
(***************************************************************************)
Measures == {"measureBrightness", "measureSoundLevel"}
caller(s, t, fn, durationMs, sampleInterval) ==
  LET s1 == Push(s, t, [fn |-> "caller", callee |-> fn,
                        args |-> <<durationMs, sampleInterval>>])
  IN  IF fn = "measureBrightness"
        THEN measureBrightness(s1, t, durationMs, sampleInterval)
        ELSE measureSoundLevel(s1, t, durationMs, sampleInterval)
caller_resume(s, t, f, v) ==
  Return(Finished(s, t, f.callee,
                  IF v.threw THEN "threw"
                  ELSE IF v.val.isNull THEN "null" ELSE "number",
                  f.args),
         t, V(Null))

(***************************************************************************)
(* The dispatch of a completion to the frame that awaits it.               *)
(***************************************************************************)
Resume(s, t, v) ==
  LET f == Top(s, t)
      s1 == Pop(s, t)
  IN  CASE f.fn = "ensureCamera" -> ensureCamera_resume(s1, t, f, v)
        [] f.fn = "ensureMic" -> ensureMic_resume(s1, t, f, v)
        [] f.fn = "measureBrightness" -> measureBrightness_resume(s1, t, f, v)
        [] f.fn = "measureSoundLevel" -> measureSoundLevel_resume(s1, t, f, v)
        [] f.fn = "mission1" -> mission1_resume(s1, t, f, v)
        [] f.fn = "mission2" -> mission2_resume(s1, t, f, v)
        [] f.fn = "mission3" -> mission3_resume(s1, t, f, v)
        [] f.fn = "mission5" -> mission5_resume(s1, t, f, v)
        [] f.fn = "mission7" -> mission7_resume(s1, t, f, v)
        [] f.fn = "getGeoPosition" -> getGeoPosition_resume(s1, t, f, v)
        [] f.fn = "requestOrientationOnce" ->
             requestOrientationOnce_resume(s1, t, f, v)
        [] f.fn = "mission11" -> mission11_resume(s1, t, f, v)
        [] f.fn = "mission28" -> mission28_resume(s1, t, f, v)
        [] f.fn = "mission35" -> mission35_resume(s1, t, f, v)
        [] f.fn = "mission25" -> mission25_resume(s1, t, f, v)
        [] f.fn = "mission30" -> mission30_resume(s1, t, f, v)
        [] f.fn = "mission26" -> mission26_resume(s1, t, f, v)
        [] f.fn = "mission33" -> mission33_resume(s1, t, f, v)
        [] f.fn = "mission38" -> mission38_resume(s1, t, f, v)
        [] f.fn = "mission6" -> mission6_resume(s1, t, f, v)
        [] f.fn = "waitForUserEnter" -> waitForUserEnter_resume(s1, t, f, v)
        [] f.fn = "mission17" -> mission17_resume(s1, t, f, v)
        [] f.fn = "mission21" -> mission21_resume(s1, t, f, v)
        [] f.fn = "mission12" -> mission12_resume(s1, t, f, v)
        [] f.fn = "mission24" -> mission24_resume(s1, t, f, v)
        [] f.fn = "mission15" -> mission15_resume(s1, t, f, v)
        [] f.fn = "mission16" -> mission16_resume(s1, t, f, v)
        [] f.fn = "mission18" -> mission18_resume(s1, t, f, v)
        [] f.fn = "mission19" -> mission19_resume(s1, t, f, v)
        [] f.fn = "mission39" -> mission39_resume(s1, t, f, v)
        [] f.fn = "mission29" -> mission29_resume(s1, t, f, v)
        [] f.fn = "mission34" -> mission34_resume(s1, t, f, v)
        [] f.fn = "detectFace" -> detectFace_resume(s1, t, f, v)
        [] f.fn = "mission4" -> mission4_resume(s1, t, f, v)
        [] f.fn = "mission9" -> mission9_resume(s1, t, f, v)
        [] f.fn = "mission14" -> mission14_resume(s1, t, f, v)
        [] f.fn = "mission20" -> mission20_resume(s1, t, f, v)
        [] f.fn = "mission23" -> mission23_resume(s1, t, f, v)
        [] f.fn = "mission32" -> mission32_resume(s1, t, f, v)
        [] f.fn = "mission37" -> mission37_resume(s1, t, f, v)
        [] f.fn = "mission40" -> mission40_resume(s1, t, f, v)
        [] f.fn = "caller" -> caller_resume(s1, t, f, v)
        [] f.fn = "runMissionById" -> runMissionById_resume(s1, t, f, v)
        [] f.fn = "execLine" -> execLine_resume(s1, t, f, v)

\* the await a run is suspended on completes; tock flips with every completion
Wake(s, t, v) ==
  Resume([s EXCEPT !.tasks[t].wait = "none", !.tasks[t].tock = ~@], t, v)

(***************************************************************************)
(* Events.                                                                 *)
(***************************************************************************)
FrameInputs == Frames \cup {NotReady}
\* the inputs an event can consume: a frame and a buffer for the command lines that
\* read the camera and the microphone, the outcome of the audio graph construction
\* when a microphone stream arrives
ReadsCamera == {"mission1", "mission7", "mission15", "mission17", "mission25",
                "mission26", "mission29", "mission30", "mission34", "measureBrightness"}
ReadsMic == {"mission2", "mission14", "mission21", "mission33", "mission38",
             "mission40", "measureSoundLevel"}
\* the whisper mission hears signals around the upper end of its range
WhisperMags == {0, 6, 7}
AudioInputs(c) ==
  IF c = "mission18" THEN {Buf(k) : k \in WhisperMags}
  ELSE IF c \in ReadsMic THEN AudioBufs ELSE {Buf(0)}
\* the dark-room mission also sees a dim frame, of luminance 40
Dim == <<40, 40, 40>>
FrameInputsOf(c) ==
  IF c = "mission1" THEN FrameInputs \cup {Uniform(Dim)}
  ELSE IF c \in ReadsCamera THEN FrameInputs ELSE {BlankFrame}
SensorInputs(c) ==
  [frame : FrameInputsOf(c),
   audio : AudioInputs(c),
   graph : {"ok"}]
StreamInputs(c, w) ==
  [frame : {BlankFrame},
   audio : AudioInputs(c),
   graph : IF w = "gum_audio" THEN GraphOutcomes ELSE {"ok"}]

InFlight == {t \in TaskIds : tasks[t].stack # <<>>}
FreeSlot == CHOOSE t \in TaskIds \ InFlight : \A u \in TaskIds \ InFlight : t <= u

\* the keydown / click listeners of lines 963-970: a line is entered and execLine
\* runs on it, whatever else is in flight
UserEnters(c) ==
  /\ entered < MaxCmds
  /\ Cardinality(InFlight) < MaxTasks
  /\ \E inp \in SensorInputs(c) :
       LET t == FreeSlot
           s == [Cur(inp) EXCEPT !.entered = @ + 1, !.done = NoRun,
                                 !.tasks[t] = [IdleTask EXCEPT !.cmd = c]]
       IN  Commit(execLine(s, t, c))

\* navigator.mediaDevices.getUserMedia settles (146, 167)
GetUserMediaSettles(t, granted) ==
  /\ tasks[t].wait \in {"gum_video", "gum_audio"}
  /\ \E inp \in StreamInputs(tasks[t].cmd, tasks[t].wait) :
       LET s == Cur(inp)
           id == nextId
       IN  IF ~granted
             THEN Commit(Wake(s, t, Threw))
             ELSE IF tasks[t].wait = "gum_video"
               THEN Commit(Wake([s EXCEPT !.camOpen = @ \cup {id}, !.nextId = id + 1],
                                t, V(id)))
               ELSE Commit(Wake([s EXCEPT !.micOpen = @ \cup {id}, !.nextId = id + 1],
                                t, V(id)))

\* camVideo.play() settles (148); its rejection is swallowed by the .catch
PlaySettles(t) ==
  /\ tasks[t].wait = "play"
  /\ \E inp \in SensorInputs(tasks[t].cmd) : Commit(Wake(Cur(inp), t, V(Null)))

\* a setTimeout of a suspended function fires
TimerFires(t) ==
  /\ tasks[t].wait = "timer"
  /\ \E inp \in SensorInputs(tasks[t].cmd) : Commit(Wake(Cur(inp), t, V(Null)))

\* fd.detect settles (260): it resolves with the faces it found, or rejects
DetectSettles(t, resolves, found) ==
  /\ tasks[t].wait = "detect"
  /\ \E inp \in SensorInputs(tasks[t].cmd) :
       Commit(Wake(Cur(inp), t, IF resolves THEN V(found) ELSE Threw))

\* a caller asks for one measurement
CallMeasure(fn, durationMs, sampleInterval) ==
  /\ entered < MaxCmds
  /\ InFlight = {}
  /\ \E inp \in SensorInputs(fn) :
       LET t == FreeSlot
           s == [Cur(inp) EXCEPT !.entered = @ + 1, !.done = NoRun,
                                 !.tasks[t] = [IdleTask EXCEPT !.cmd = fn]]
       IN  Commit(caller(s, t, fn, durationMs, sampleInterval))

\* DeviceMotionEvent.requestPermission() settles (287-289)
PermissionSettles(h, granted) ==
  /\ h \in permPending
  /\ permPending' = permPending \ {h}
  /\ listeners' = IF granted THEN listeners \cup {h} ELSE listeners
  /\ UNCHANGED <<score, cameraStream, srcObject, micStream, audioContext,
                 micAnalyser, micDataArray, canvas, motionActive, motionHandler,
                 motionCounts, lastMotionTimestamp, faceDetectorAvailable,
                 needsPermission, geolocation, orientReqs, enterWaits, camOpen,
                 micOpen,
                 ctxOpen, nextId, now, tasks, entered, done, counted, dropped>>

RECURSIVE Deliver(_, _, _)
Deliver(s, ev, n) == IF n = 0 THEN s ELSE Deliver(motionHandlerCall(s, ev), ev, n - 1)

\* a run between the start and the end of its motion mission's window
InWindow(task) ==
  /\ task.stack # <<>>
  /\ task.stack[Len(task.stack)].fn \in {"mission5", "mission16", "mission19",
                                         "mission39"}

\* the runs whose mission3 handler is registered
StillListeners ==
  {t \in InFlight : StillListening(tasks[t].stack[Len(tasks[t].stack)])}

\* the platform dispatches one devicemotion event to every registered listener:
\* the closures of startMotionCounting and the handlers of mission3
\* history: a run inside the window of its motion mission also keeps the number
\* of events the handler counted during that window (own)
DeviceMotion(ev) ==
  /\ listeners # {} \/ StillListeners # {}
  /\ LET s == Deliver(Cur(NoInput), ev, Cardinality(listeners))
     IN  Commit([s EXCEPT !.tasks =
                   [t \in TaskIds |->
                      IF t \in StillListeners
                        THEN mission3_handler(s.tasks[t], ev)
                      ELSE IF InWindow(s.tasks[t])
                        THEN [s.tasks[t] EXCEPT
                                !.own = @ + (s.motionCounts - motionCounts)]
                      ELSE s.tasks[t]]])

\* the DeviceMotionEvent.requestPermission() awaited by mission3 (378) settles
MotionPermissionSettles(t, granted, rejects) ==
  /\ tasks[t].wait = "motion_permission"
  /\ Commit(Wake(Cur(NoInput), t,
                 IF rejects THEN Threw
                 ELSE V(IF granted THEN "granted" ELSE "denied")))

TickSteps == {100, 300}
\* Date.now() advances by d, up to the bound until
Tick(d, until) ==
  /\ now + d <= until
  /\ now' = now + d
  /\ UNCHANGED <<score, cameraStream, srcObject, micStream, audioContext,
                 micAnalyser, micDataArray, canvas, motionActive, motionHandler,
                 motionCounts, lastMotionTimestamp, faceDetectorAvailable,
                 needsPermission, geolocation, orientReqs, enterWaits, camOpen,
                 micOpen,
                 ctxOpen, listeners, permPending, nextId, tasks, entered, done,
                 counted, dropped>>

Init ==
  /\ score = 0
  /\ cameraStream = Null /\ srcObject = Null
  /\ micStream = Null /\ audioContext = Null /\ micAnalyser = Null
  /\ micDataArray = Null
  /\ canvas = BlankFrame
  /\ motionActive = FALSE /\ motionHandler = Null /\ motionCounts = 0
  /\ lastMotionTimestamp = 0
  /\ faceDetectorAvailable \in BOOLEAN
  /\ needsPermission \in BOOLEAN
  /\ geolocation \in BOOLEAN
  /\ orientReqs = {}
  /\ enterWaits = {}
  /\ camOpen = {} /\ micOpen = {} /\ ctxOpen = {}
  /\ listeners = {} /\ permPending = {}
  /\ nextId = 1
  /\ now = StartNow
  /\ tasks = [t \in TaskIds |-> IdleTask]
  /\ entered = 0
  /\ done = NoRun
  /\ counted = <<>>
  /\ dropped = 0

(***************************************************************************)
(* Spec: the camera and microphone handles under any interleaving of       *)
(* command lines.                                                          *)
(***************************************************************************)
Commands == {"allow", "stopcam", "stopmic", "mission29"}

Next ==
  \/ \E c \in Commands : UserEnters(c)
  \/ \E t \in TaskIds, g \in BOOLEAN : GetUserMediaSettles(t, g)
  \/ \E t \in TaskIds : PlaySettles(t)

InitSpec == Init /\ ~faceDetectorAvailable /\ ~needsPermission /\ geolocation

Spec == InitSpec /\ [][Next]_vars

(***************************************************************************)
(* SpecSeq: the camera and microphone missions run one at a time, the next *)
(* line being entered only when the previous execLine is over.             *)
(***************************************************************************)
SeqCommands == {"mission1", "mission2", "mission7", "mission15", "mission29",
                "mission34", "stopcam", "stopmic"}

\* one of the callbacks passed to getCurrentPosition at line 318 is called
GeoSettles(t, cb) ==
  /\ tasks[t].wait = "geo"
  /\ Commit(Wake(Cur(NoInput), t, V(cb)))

\* the platform dispatches a 'deviceorientation' event to the handlers registered
\* when the dispatch starts, in the order of their registration; a handler removed
\* meanwhile is skipped
RECURSIVE DispatchOrientation(_, _, _)
DispatchOrientation(s, ids, e) ==
  IF ids = {} THEN s
  ELSE LET id == CHOOSE i \in ids : \A j \in ids : i <= j
       IN  DispatchOrientation(IF Req(s, id).listening
                                 THEN orientationHandler(s, id, e) ELSE s,
                               ids \ {id}, e)
Listening == {r.id : r \in {q \in orientReqs : q.listening}}
DeviceOrientation(e) ==
  /\ Listening # {}
  /\ Commit(DispatchOrientation(Cur(NoInput), Listening, e))
\* the timer of line 310 fires
OrientationTimerFires(id) ==
  /\ \E r \in orientReqs : r.id = id /\ r.timer
  /\ Commit(orientationTimeout(Cur(NoInput), id))

\* a setTimeout fires and Date.now() has advanced by its delay: the 150 ms of
\* detectFace (263), the sampleInterval of the measuring loops (218, 242), the
\* 1200 ms of mission6 (422), and at
\* least LeastTimerMs for every other timer of the program
LeastTimerMs == 100
TimerMs(f) ==
  IF f.fn = "detectFace" THEN 150
  ELSE IF f.fn \in {"measureBrightness", "measureSoundLevel"} THEN f.sampleInterval
  ELSE IF f.fn = "mission6" THEN 1200
  ELSE LeastTimerMs
TimerElapses(t, until) ==
  /\ tasks[t].wait = "timer"
  /\ LET d == TimerMs(tasks[t].stack[Len(tasks[t].stack)])
     IN  /\ now + d <= until
         /\ \E inp \in SensorInputs(tasks[t].cmd) :
              Commit(Wake([Cur(inp) EXCEPT !.now = @ + d], t, V(Null)))

UserEntersIdle(c) == InFlight = {} /\ UserEnters(c)

NextSeq ==
  \/ \E c \in SeqCommands : UserEntersIdle(c)
  \/ \E t \in TaskIds, g \in BOOLEAN : GetUserMediaSettles(t, g)
  \/ \E t \in TaskIds : PlaySettles(t)
  \/ \E t \in TaskIds : TimerFires(t)

SpecSeq == InitSpec /\ [][NextSeq]_vars

(***************************************************************************)
(* Claims.                                                                 *)
(***************************************************************************)

\* C1: a mission run during which ensureCamera or ensureMic rejected does not
\* return pass.
C1_FailedAcquisitionNeverPasses ==
  (done.cmd \in Missions /\ done.acqFailed) => done.outcome # "pass"

\* C2: in every reachable state at most one camera stream and at most one
\* microphone stream is opened and not stopped.
C2_AtMostOneStreamPerKind ==
  Cardinality(camOpen) <= 1 /\ Cardinality(micOpen) <= 1

\* C3: at most one mission run is in flight at any time.
C3_AtMostOneMissionRun ==
  Cardinality({t \in InFlight : tasks[t].cmd \in Missions}) <= 1

\* C8: a stopcam / stopmic line that finds a handle held stops that stream and
\* clears the cached handle (for the microphone also the audio context, the
\* analyser and the data array, closing the context), so that the next ensure
\* call, finding no handle, asks the platform for a new stream; one that finds no
\* handle held changes nothing of the program's state.
ProgramState ==
  <<score, cameraStream, srcObject, micStream, audioContext, micAnalyser,
    micDataArray, canvas, motionActive, motionHandler, motionCounts,
    lastMotionTimestamp, camOpen, micOpen, ctxOpen, listeners, permPending,
    nextId, tasks>>
StopCameraEffect ==
  IF cameraStream # Null
    THEN /\ cameraStream' = Null
         /\ srcObject' = Null
         /\ camOpen' = camOpen \ {cameraStream}
         /\ UNCHANGED <<micStream, audioContext, micAnalyser, micDataArray,
                        micOpen, ctxOpen>>
    ELSE UNCHANGED ProgramState
StopMicEffect ==
  IF micStream # Null
    THEN /\ micStream' = Null
         /\ audioContext' = Null /\ micAnalyser' = Null /\ micDataArray' = Null
         /\ micOpen' = micOpen \ {micStream}
         /\ ctxOpen' = ctxOpen \ {audioContext}
         /\ UNCHANGED <<cameraStream, srcObject, camOpen>>
    ELSE UNCHANGED ProgramState
C8_StopReleasesHandle ==
  [][/\ UserEnters("stopcam") => StopCameraEffect
     /\ UserEnters("stopmic") => StopMicEffect]_vars
C8_Witness ==
  /\ done.cmd = "stopmic" /\ done.outcome = "released"
  /\ micStream = Null /\ audioContext = Null /\ nextId > 2

\* C10: in missions 15 and 34 a null baseline makes the mission fail, and a
\* baseline measured as exactly 0 enters the comparison as 0.
C10_BaselineNeverDefaulted ==
  (done.cmd \in {"mission15", "mission34"} /\ Len(done.measured) = 2) =>
    LET b == done.measured[1]
        m == done.measured[2]
    IN  /\ b.isNull => done.outcome # "pass"
        /\ (~b.isNull /\ b.num = 0) =>
             (done.outcome = "pass" <=>
                /\ ~m.isNull
                /\ IF done.cmd = "mission15" THEN Less(m, Times(b, 1, 5))
                                             ELSE Less(Times(b, 9, 5), m))

(***************************************************************************)
(* SpecMotion: the motion-counting missions, with the clock, the motion    *)
(* events and the permission prompt of the platform.                       *)
(***************************************************************************)
MotionMissions == {"mission5", "mission16", "mission19", "mission39"}

NextMotion ==
  \/ \E c \in MotionMissions : UserEnters(c)
  \/ \E t \in TaskIds : TimerFires(t)
  \/ \E h \in permPending, g \in BOOLEAN : PermissionSettles(h, g)
  \/ \E ev \in MotionEvents : DeviceMotion(ev)
  \/ \E d \in TickSteps : Tick(d, MaxNow)

InitMotion == Init /\ ~faceDetectorAvailable /\ geolocation

SpecMotion == InitMotion /\ [][NextMotion]_vars

\* C4: once no motion-counting mission is in flight, no devicemotion listener
\* installed by startMotionCounting is registered any more.
C4_NoListenerAfterMission ==
  (\A t \in InFlight : tasks[t].cmd \notin MotionMissions) => listeners = {}

\* C5: no two events counted since the counter was last reset are less than
\* 300 ms apart, and the counter never exceeds the number of such events: a burst
\* within 300 ms of a counted event adds nothing.
C5_DebounceHolds ==
  /\ \A i, j \in 1..Len(counted) : i < j => counted[j] - counted[i] >= DebounceMs
  /\ motionCounts <= Len(counted)
C5_Witness ==
  /\ Len(counted) >= 2
  /\ dropped > counted[1] /\ dropped - counted[1] < DebounceMs
  /\ motionCounts = 2

\* C6 as stated: a strong event delivered to the handler is counted whenever
\* no event was counted yet or at least 300 ms have passed since the last one.
Strong(ev) == MagSquared(ev) > MotionThreshold * MotionThreshold
C6_CountedFromDebounceOn ==
  [][\A ev \in MotionEvents :
       (/\ DeviceMotion(ev)
        /\ Strong(ev)
        /\ lastMotionTimestamp = 0 \/ now - lastMotionTimestamp >= DebounceMs)
       => motionCounts' = motionCounts + 1]_vars

\* C6 as amended: a strong event delivered to the handler is counted whenever
\* no event was counted yet or MORE than 300 ms have passed since the last
\* counted one; at exactly 300 ms it is not counted.
C6_CountedAfterDebounce ==
  [][\A ev \in MotionEvents :
       (DeviceMotion(ev) /\ Strong(ev)) =>
          IF lastMotionTimestamp = 0 \/ now - lastMotionTimestamp > DebounceMs
            THEN motionCounts' = motionCounts + 1 /\ lastMotionTimestamp' = now
            ELSE motionCounts' = motionCounts]_vars
C6_Witness ==
  /\ Len(counted) >= 2
  /\ dropped = counted[1] + DebounceMs
  /\ counted[2] > dropped

(***************************************************************************)
(* SpecSample: measureBrightness and measureSoundLevel called one at a     *)
(* time with durations and intervals of the caller's choice.               *)
(***************************************************************************)
Durations == {100, 600, 1000}
Intervals == {200, 250}

NextSample ==
  \/ \E fn \in Measures, d \in Durations, i \in Intervals : CallMeasure(fn, d, i)
  \/ \E t \in TaskIds, g \in BOOLEAN : GetUserMediaSettles(t, g)
  \/ \E t \in TaskIds : PlaySettles(t)
  \/ \E t \in TaskIds : TimerFires(t)

SpecSample == InitSpec /\ [][NextSample]_vars

MaxFaceNow == 5000
FaceTickSteps == {2000}
FaceMotionEvents == {<<3, 4, 12>>}

NextFace ==
  \/ \E c \in FaceMissions : UserEntersIdle(c)
  \/ \E t \in TaskIds, g \in BOOLEAN : GetUserMediaSettles(t, g)
  \/ \E t \in TaskIds : PlaySettles(t)
  \/ \E t \in TaskIds : TimerFires(t)
  \/ \E t \in TaskIds, found \in FaceLists : DetectSettles(t, TRUE, found)
  \/ \E t \in TaskIds : DetectSettles(t, FALSE, <<>>)
  \/ \E ev \in FaceMotionEvents : DeviceMotion(ev)
  \/ \E d \in FaceTickSteps : Tick(d, MaxFaceNow)

InitFace == Init /\ ~needsPermission /\ geolocation

SpecFace == InitFace /\ [][NextFace]_vars

\* C9 as stated: without the FaceDetector every run of missions 4, 9, 14, 20,
\* 23, 32, 37, 40 fails, and without a call of detectFace.
C9_AllFaceMissionsFail ==
  (~faceDetectorAvailable /\ done.cmd \in FaceMissions) =>
     done.outcome = "fail" /\ done.faceCalls = 0

\* C9 as amended: without the FaceDetector no run of missions 4, 9, 14, 20, 23,
\* 32, 37, 40 calls detectFace or waits for a detection; missions 4, 14, 20, 23,
\* 32, 37 fail; mission40 does not pass (it fails, or ends in a mission error
\* when measureSoundLevel throws); mission9 passes exactly when its ensureCamera
\* succeeds and fails otherwise.
C9_AbsentDetectorOnlyMission9Passes ==
  ~faceDetectorAvailable =>
    /\ \A t \in InFlight :
         tasks[t].cmd \in FaceMissions =>
           tasks[t].faceCalls = 0 /\ tasks[t].wait # "detect"
    /\ done.cmd \in FaceMissions =>
         /\ done.faceCalls = 0
         /\ done.cmd \in FaceMissions \ {"mission9", "mission40"} =>
              done.outcome = "fail"
         /\ done.cmd = "mission40" => done.outcome \in {"fail", "error"}
         /\ done.cmd = "mission9" =>
              done.outcome = (IF done.acqFailed THEN "fail" ELSE "pass")
C9_Witness ==
  /\ ~faceDetectorAvailable
  /\ done.cmd = "mission9" /\ done.outcome = "pass" /\ done.faceCalls = 0
  /\ score = 5

(***************************************************************************)
(* SpecStill: mission3 with the motion events of the platform, if any.     *)
(***************************************************************************)
NextStill ==
  \/ UserEnters("mission3")
  \/ \E t \in TaskIds : TimerFires(t)
  \/ \E t \in TaskIds, g \in BOOLEAN : MotionPermissionSettles(t, g, FALSE)
  \/ \E t \in TaskIds : MotionPermissionSettles(t, FALSE, TRUE)
  \/ \E ev \in MotionEvents : DeviceMotion(ev)

SpecStill == InitMotion /\ [][NextStill]_vars

\* C11: a run of mission3 whose handler received no devicemotion event at all
\* does not pass.
C11_NoEventNoPass ==
  (done.cmd = "mission3" /\ done.seen = {}) => done.outcome # "pass"

\* C12: mission40 passes if and only if a face was found, the measured RMS is a
\* number above 0.08 and the motion count is at least 2; whenever one of the
\* three is failed or unavailable the run ends as a failed mission.
AllThreePass ==
  /\ done.faceHits > 0
  /\ Len(done.measured) = 1
  /\ ~done.measured[1].isNull
  /\ Less(Level(8, 100), done.measured[1])
  /\ done.count >= 2
C12_CompositeIffAllThree ==
  done.cmd = "mission40" =>
    /\ done.outcome = "pass" <=> AllThreePass
    /\ ~AllThreePass => done.outcome = "fail"

(***************************************************************************)
(* SpecWhisper: mission18, one run at a time, the microphone released or   *)
(* not in between.                                                         *)
(***************************************************************************)
WhisperCommands == {"mission18", "stopmic"}

NextWhisper ==
  \/ \E c \in WhisperCommands : UserEntersIdle(c)
  \/ \E t \in TaskIds, g \in BOOLEAN : GetUserMediaSettles(t, g)
  \/ \E t \in TaskIds : TimerFires(t)

SpecWhisper == InitSpec /\ [][NextWhisper]_vars

\* C13 as stated: with a measured RMS, mission18 passes exactly when
\* 0.01 <= measured <= 0.05.
C13_RangeInclusive ==
  (done.cmd = "mission18" /\ Len(done.measured) = 1 /\ ~done.measured[1].isNull) =>
     (done.outcome = "pass" <=>
        /\ ~Less(done.measured[1], Level(1, 100))
        /\ ~Less(Level(5, 100), done.measured[1]))

\* C13 as amended: mission18 takes 15 readings and, with a measured RMS, passes
\* exactly when 0.01 < measured < 0.05; at measured = 0.05 (and at 0.01) it
\* fails, as it does with no measurement.
C13_RangeExclusive ==
  done.cmd = "mission18" =>
    /\ (Len(done.measured) = 1 /\ ~done.measured[1].isNull) =>
         /\ done.reads = 15
         /\ done.outcome = "pass" <=>
              /\ Less(Level(1, 100), done.measured[1])
              /\ Less(done.measured[1], Level(5, 100))
    /\ (Len(done.measured) = 1 /\ done.measured[1].isNull) => done.outcome = "fail"
C13_Witness ==
  /\ done.cmd = "mission18" /\ done.outcome = "fail"
  /\ Len(done.measured) = 1
  /\ done.measured[1] = Num(96, 15)

(***************************************************************************)
(* SpecBasic: the dark-room and stay-silent missions, one run at a time.   *)
(***************************************************************************)
BasicCommands == {"mission1", "mission2"}

NextBasic ==
  \/ \E c \in BasicCommands : UserEntersIdle(c)
  \/ \E t \in TaskIds, g \in BOOLEAN : GetUserMediaSettles(t, g)
  \/ \E t \in TaskIds : PlaySettles(t)
  \/ \E t \in TaskIds : TimerFires(t)

SpecBasic == InitSpec /\ [][NextBasic]_vars

\* C14: a run of mission1 whose camera acquisition succeeded takes 8 frame
\* readings and passes exactly when their mean luminance is below 35 (and fails
\* otherwise); if every reading was black the measured value is 0 and the run
\* passes, if every reading was white it is 255 and the run fails.
C14_DarkRoom ==
  (done.cmd = "mission1" /\ ~done.acqFailed) =>
     /\ done.reads = 8
     /\ Len(done.measured) = 1
     /\ ~done.measured[1].isNull
     /\ done.measured[1].den = 8
     /\ done.outcome = (IF Less(done.measured[1], Lum(35)) THEN "pass" ELSE "fail")
     /\ done.seen = {0} => done.measured[1].num = 0 /\ done.outcome = "pass"
     /\ done.seen = {255 * LumScale} =>
          /\ done.measured[1].num = 255 * LumScale * 8
          /\ done.outcome = "fail"
C14_Witness ==
  /\ done.cmd = "mission1" /\ ~done.acqFailed
  /\ done.seen = {255 * LumScale} /\ done.outcome = "fail"
  /\ score = 5

\* C15: a run of mission2 that obtains a measurement (its microphone stream and
\* analyser are available) takes 24 readings and passes exactly when their mean
\* RMS is below 0.015, failing otherwise; if every buffer read was constant 128
\* the measured value is exactly 0 and the run passes.  A run whose acquisition
\* did not fail ends without a measurement only by an error before any reading.
C15_StaySilent ==
  done.cmd = "mission2" =>
    /\ (Len(done.measured) = 1 /\ ~done.measured[1].isNull) =>
         /\ ~done.acqFailed
         /\ done.reads = 24
         /\ done.measured[1].den = 24
         /\ done.outcome =
              (IF Less(done.measured[1], Level(15, 1000)) THEN "pass" ELSE "fail")
         /\ done.seen = {0} => done.measured[1].num = 0 /\ done.outcome = "pass"
    /\ (~done.acqFailed /\ done.measured = <<>>) =>
         done.outcome = "error" /\ done.reads = 0
C15_Witness ==
  /\ done.cmd = "mission2" /\ done.outcome = "pass"
  /\ done.seen = {0} /\ done.reads = 24
  /\ done.measured = <<Num(0, 24)>>

(***************************************************************************)
(* The geolocation missions, on platforms with and without geolocation.    *)
(***************************************************************************)
GeoMissions == {"mission12", "mission24"}
NextGeo ==
  \/ \E c \in GeoMissions : UserEnters(c)
  \/ \E t \in TaskIds : TimerFires(t)
  \/ \E t \in TaskIds : \E cb \in GeoCallbacks : GeoSettles(t, cb)

InitGeo == Init /\ ~faceDetectorAvailable /\ ~needsPermission
SpecGeo == InitGeo /\ [][NextGeo]_vars

\* the positions a finished run obtained that are null
NullFixes(m) == {i \in 1..Len(m) : m[i].isNull}

\* C16: getGeoPosition never rejects and settles each call once: a run of
\* mission12 obtains one result and a run of mission24 at most two, a result
\* obtained where geolocation is unsupported is null, and a run that obtained a
\* null result ends failed, never with an exception; mission12 passes exactly
\* when its result is a fix.
C16_GeoNeverRejects ==
  done.cmd \in GeoMissions =>
    /\ done.outcome \in {"pass", "fail"}
    /\ Len(done.measured) >= 1
    /\ Len(done.measured) = IF done.cmd = "mission24" /\ ~done.measured[1].isNull
                            THEN 2 ELSE 1
    /\ ~geolocation => NullFixes(done.measured) = {1}
    /\ NullFixes(done.measured) # {} => done.outcome = "fail"
    /\ done.cmd = "mission12" =>
         (done.outcome = "pass" <=> NullFixes(done.measured) = {})
    /\ done.cmd = "mission24" /\ done.outcome = "pass" =>
         MovedFar(done.measured[1], done.measured[2])

\* mission24 got a first fix and then an error for the second, and failed
C16_Witness ==
  /\ done.cmd = "mission24"
  /\ Len(done.measured) = 2
  /\ NullFixes(done.measured) = {2}
  /\ done.outcome = "fail"

(***************************************************************************)
(* The missions that read the orientation once or twice.                   *)
(***************************************************************************)
OrientMissions == {"mission11", "mission28", "mission35"}
NextOrient ==
  \/ \E c \in OrientMissions : UserEnters(c)
  \/ \E t \in TaskIds : TimerFires(t)
  \/ \E e \in OrientationEvents : DeviceOrientation(e)
  \/ \E r \in orientReqs : OrientationTimerFires(r.id)

SpecOrient == InitSpec /\ [][NextOrient]_vars

\* the request of orientReqs that the record r is after the step, if any
After(r) == {q \in orientReqs' : q.id = r.id}

\* C17: a call of requestOrientationOnce whose listener is registered is unsettled
\* and its timer pending; an event settles it with that event's reading and the
\* timer settles it with null, and either way the listener is gone; once settled
\* its value never changes, whatever event or timer comes later.
C17_SettlesOnce ==
  [][\A r \in orientReqs : \A q \in After(r) :
       /\ q.listening => ~q.settled /\ q.timer
       /\ r.settled => q.settled /\ q.value = r.value /\ ~q.listening
       /\ ~r.settled /\ q.settled /\ q.timer =>
            \E e \in OrientationEvents : q.value = Reading(e)
       /\ ~r.settled /\ q.settled /\ ~q.timer => q.value = NoReading
       /\ ~r.timer => q = r]_vars

\* an earlier call settled with a reading, its timer is still to fire, and a later
\* call of the same run has settled with the reading of a later, different event
C17_Witness ==
  \E r1, r2 \in orientReqs :
    /\ r1.id < r2.id /\ r1.task = r2.task
    /\ r1.settled /\ r2.settled /\ r1.timer
    /\ ~r1.value.isNull /\ ~r2.value.isNull
    /\ r1.value # r2.value

(***************************************************************************)
(* The missions that read camera frames themselves, one command at a time. *)
(***************************************************************************)
ColourCommands == {"mission25", "mission29", "mission30"}
NextColour ==
  \/ \E c \in ColourCommands : UserEntersIdle(c)
  \/ \E t \in TaskIds, g \in BOOLEAN : GetUserMediaSettles(t, g)
  \/ \E t \in TaskIds : PlaySettles(t)
  \/ \E t \in TaskIds : TimerFires(t)

SpecColour == InitSpec /\ [][NextColour]_vars

\* C18: no run reads a camera frame unless an acquisition of that run succeeded
\* before the reading or a camera handle is held when it is taken.
C18_ReadsOnlyAfterAcquisition ==
  /\ \A t \in TaskIds : ~tasks[t].blind
  /\ ~done.blind

\* C19: the count a motion mission compares with its goal is the number of events
\* the handler counted during that mission's own window, and the handler stays in
\* place, counting, for as long as a window is open.
C19_CountsOwnWindow ==
  /\ done.cmd \in MotionMissions => done.count = done.own
  /\ \A t \in TaskIds : InWindow(tasks[t]) => motionActive /\ motionHandler # Null

(***************************************************************************)
(* A measuring mission, one at a time, with stopcam and stopmic entered at *)
(* any moment, also while the mission's sampling loop is suspended.        *)
(***************************************************************************)
StopCommands == {"stopcam", "stopmic"}
NextStop ==
  \/ \E c \in BasicCommands : UserEntersIdle(c)
  \/ \E c \in StopCommands : UserEnters(c)
  \/ \E t \in TaskIds, g \in BOOLEAN : GetUserMediaSettles(t, g)
  \/ \E t \in TaskIds : PlaySettles(t)
  \/ \E t \in TaskIds : TimerFires(t)

SpecStop == InitSpec /\ [][NextStop]_vars

\* C20: no run takes a reading of the camera or of the microphone while the
\* handle of that sensor is not held.
C20_ReadsWhileHeld ==
  /\ \A t \in TaskIds : ~tasks[t].unheld
  /\ ~done.unheld

(***************************************************************************)
(* The missions that measure twice, one command at a time.                 *)
(***************************************************************************)
TwiceCommands == {"mission15", "mission26", "mission38"}
NextTwice ==
  \/ \E c \in TwiceCommands : UserEntersIdle(c)
  \/ \E t \in TaskIds, g \in BOOLEAN : GetUserMediaSettles(t, g)
  \/ \E t \in TaskIds : PlaySettles(t)
  \/ \E t \in TaskIds : TimerFires(t)

SpecTwice == InitSpec /\ [][NextTwice]_vars

\* C21: within one run, getUserMedia is not called again for a sensor whose
\* acquisition already failed in that run.
C21_NoSecondAttempt ==
  /\ \A t \in TaskIds : ~tasks[t].retried
  /\ ~done.retried

\* C22: a run that ended because an acquisition failed or because its run function
\* threw changes the score once, by the penalty of a failed comparison.
C22_FailurePenalised ==
  (done.cmd \in Missions /\ (done.acqFailed \/ done.outcome = "error")) =>
    done.deltas = <<Penalty(done.cmd)>>

\* C23: whenever micStream is held, the audio context, the analyser and its data
\* array are there too.
C23_MicGraphComplete ==
  micStream # Null =>
    audioContext # Null /\ micAnalyser # Null /\ micDataArray # Null

(***************************************************************************)
(* Runs to completion.  One command at a time; the clock advances with the *)
(* timers that fire.  Fairness: every timer that is set fires and every    *)
(* pending platform call (getUserMedia, play, detect, getCurrentPosition)  *)
(* settles.  Each of these actions is enabled exactly while the await it   *)
(* completes is pending, so their weak fairness is stated on the state.    *)
(***************************************************************************)
MaxLiveNow == 12000
LiveCommands == {"mission11", "mission12", "mission26", "mission37"}
GumSettles == \E t \in TaskIds, g \in BOOLEAN : GetUserMediaSettles(t, g)
PlayDone == \E t \in TaskIds : PlaySettles(t)
TimerDone == \E t \in TaskIds : TimerElapses(t, MaxLiveNow)
DetectDone ==
  \/ \E t \in TaskIds, found \in FaceLists : DetectSettles(t, TRUE, found)
  \/ \E t \in TaskIds : DetectSettles(t, FALSE, <<>>)
GeoDone == \E t \in TaskIds : \E cb \in GeoCallbacks : GeoSettles(t, cb)
OrientationTimerDone == \E r \in orientReqs : OrientationTimerFires(r.id)
NextLive ==
  \/ \E c \in LiveCommands : UserEntersIdle(c)
  \/ GumSettles
  \/ PlayDone
  \/ TimerDone
  \/ DetectDone
  \/ GeoDone
  \/ OrientationTimerDone
  \/ \E e \in OrientationEvents : DeviceOrientation(e)

\* every await a run is suspended on completes: no run stays suspended on one
\* await for ever
LiveFairness ==
  \A t \in TaskIds :
    /\ []<>(tasks[t].wait = "none" \/ tasks[t].tock)
    /\ []<>(tasks[t].wait = "none" \/ ~tasks[t].tock)
SpecLive == InitFace /\ [][NextLive]_vars /\ LiveFairness

\* C24: every run that is started ends, with its outcome recorded by
\* runMissionById, and no run changes the score more than once.
C24_RunsEnd ==
  /\ \A t \in TaskIds : (tasks[t].stack # <<>>) ~> (tasks[t].stack = <<>>)
  /\ [](\A t \in TaskIds : Len(tasks[t].deltas) <= 1)
  /\ [](done.cmd \in Missions =>
          done.outcome \in {"pass", "fail", "error"} /\ Len(done.deltas) <= 1)

\* a run of mission37 ended after both of its detectFace calls ran into their
\* timeout
C24_Witness ==
  /\ done.cmd = "mission37" /\ done.faceCalls = 2 /\ done.faceHits = 0
  /\ done.outcome = "fail"
  /\ now >= StartNow + 4000

(***************************************************************************)
(* Scoring: missions that pass, fail and throw, the composite mission, an  *)
(* unknown mission id and a command that is no mission, one at a time.     *)
(***************************************************************************)
ScoreCommands == {"mission2", "mission40", "mission41", "stopmic"}
NextScore ==
  \/ \E c \in ScoreCommands : UserEntersIdle(c)
  \/ \E t \in TaskIds, g \in BOOLEAN : GetUserMediaSettles(t, g)
  \/ \E t \in TaskIds : TimerFires(t)

SpecScore == InitSpec /\ [][NextScore]_vars

\* C25: the step in which a run of a known mission completes changes the score by
\* +10 when the run passed, by -5 (-10 for mission40) when it failed and not at
\* all when it threw; every other step, among them a whole mission41 or stopmic
\* command, leaves the score as it is.
C25_ScoreIsSumOfDeltas ==
  [][LET completes == done' # done /\ done'.cmd \in Missions
         delta == score' - score
     IN  IF completes
           THEN /\ done'.outcome = "pass" => delta = 10
                /\ done'.outcome = "fail" =>
                     delta = IF done'.cmd = "mission40" THEN -10 ELSE -5
                /\ done'.outcome = "error" => delta = 0
                /\ done'.outcome \in {"pass", "fail", "error"}
           ELSE delta = 0]_vars

\* a passed mission2 followed by a failed mission40: +10 - 10
C25_Witness ==
  /\ entered = 2
  /\ done.cmd = "mission40" /\ done.outcome = "fail"
  /\ score = 0

\* the change of one angle between the two readings of a finished run
Turned(m, angle) == Abs(OrZero(m[2][angle]) - OrZero(m[1][angle]))

\* C26: a run of mission28 or mission35 takes two readings; when either is null
\* the run fails, and it passes exactly when both are readings and the angle
\* (alpha for mission28, beta for mission35) changed by more than the limit (40,
\* 70).
C26_NullReadingFails ==
  done.cmd \in {"mission28", "mission35"} =>
    /\ Len(done.measured) = 2
    /\ (done.measured[1].isNull \/ done.measured[2].isNull) =>
         done.outcome = "fail"
    /\ done.outcome = "pass" <=>
         /\ ~done.measured[1].isNull /\ ~done.measured[2].isNull
         /\ IF done.cmd = "mission28" THEN Turned(done.measured, "alpha") > 40
            ELSE Turned(done.measured, "beta") > 70

\* the first reading timed out and the second has an alpha of 50: the run failed
C26_Witness ==
  /\ done.cmd = "mission28"
  /\ Len(done.measured) = 2
  /\ done.measured[1].isNull
  /\ ~done.measured[2].isNull /\ done.measured[2].alpha = 50
  /\ done.outcome = "fail"

\* C27: a measurement that took n readings suspended n - 1 times on its interval
\* timer.
C27_SuspendsBetweenReadings ==
  (done.cmd \in Measures /\ done.reads > 0) => done.waits = done.reads - 1

\* the functions a suspended run is inside of
OnStack(t) == {tasks[t].stack[i].fn : i \in 1..Len(tasks[t].stack)}

\* C28: the three sub-evaluations of mission40 are under way together: whenever a
\* run of mission40 is suspended in its face detection or in its microphone
\* measurement, its motion window is open, and while it is suspended in its face
\* detection the microphone measurement has begun.
C28_WindowsOverlap ==
  \A t \in TaskIds :
    (tasks[t].cmd = "mission40" /\ "mission40" \in OnStack(t)) =>
      /\ OnStack(t) \cap {"detectFace", "measureSoundLevel"} # {} => motionActive
      /\ "detectFace" \in OnStack(t) => "measureSoundLevel" \in OnStack(t)

(***************************************************************************)
(* Missions that compare one measured value, one command at a time.        *)
(***************************************************************************)
DiagCommands == {"mission2", "mission17", "mission21"}
NextDiag ==
  \/ \E c \in DiagCommands : UserEntersIdle(c)
  \/ \E t \in TaskIds, g \in BOOLEAN : GetUserMediaSettles(t, g)
  \/ \E t \in TaskIds : PlaySettles(t)
  \/ \E t \in TaskIds : TimerFires(t)

SpecDiag == InitSpec /\ [][NextDiag]_vars

\* C29: every value a finished mission run measured is among the values its
\* output showed, whether the run passed or failed.
C29_MeasuredValueShown ==
  done.cmd \in Missions =>
    \A i \in 1..Len(done.measured) :
      ~done.measured[i].isNull => done.measured[i] \in done.printed

(***************************************************************************)
(* The two-claps mission, one command at a time.                           *)
(***************************************************************************)
NextClap ==
  \/ UserEntersIdle("mission33")
  \/ \E t \in TaskIds, g \in BOOLEAN : GetUserMediaSettles(t, g)
  \/ \E t \in TaskIds : TimerFires(t)

SpecClap == InitSpec /\ [][NextClap]_vars

\* C30: a mission33 run passes only when its readings held two readings above
\* 0.08 with a reading at or below 0.08 between them.
C30_ClapsSeparated ==
  (done.cmd = "mission33" /\ done.outcome = "pass") => done.claps = 3

(***************************************************************************)
(* SpecReact: the reaction mission, with keys pressed and the run button   *)
(* clicked while runs wait, and the clock.                                 *)
(***************************************************************************)
MaxReactNow == 8000
ReactSteps == {500}
InputKinds == {"Enter", "click", "a"}
ReactLines == {"", "mission6"}

\* history of an Enter keydown or a click: it is the first since the call for
\* every wait whose timer callback has not run and that had none before
HeardBy(s) ==
  LET first == {r \in s.enterWaits : r.timer /\ ~r.heard}
  IN  [s EXCEPT
         !.enterWaits = {IF r \in first THEN [r EXCEPT !.heard = TRUE] ELSE r :
                           r \in @},
         !.tasks = [t \in TaskIds |->
                      IF \E r \in first : r.task = t
                        THEN [@[t] EXCEPT !.reaction =
                                s.now - (CHOOSE r \in first : r.task = t).start]
                        ELSE @[t]]]

\* the event reaches the listeners of the waits in the order of their registration
RECURSIVE DispatchInput(_, _, _)
DispatchInput(s, ids, kind) ==
  IF ids = {} THEN s
  ELSE LET id == CHOOSE i \in ids : \A j \in ids : i <= j
           r == EnterWait(s, id)
           s1 == IF kind = "click"
                   THEN (IF r.click THEN btnHandler(s, id) ELSE s)
                   ELSE (IF r.keydown THEN handler(s, id, kind) ELSE s)
       IN  DispatchInput(s1, ids \ {id}, kind)

\* a keydown on the command field or a click on the run button while the field
\* holds the line c: the listeners of lines 963-970 come first and run execLine
\* on an Enter or a click, then the listeners of the waits
UserInput(kind, c) ==
  /\ c # "" => /\ kind # "a"
               /\ entered < MaxCmds
               /\ Cardinality(InFlight) < MaxTasks
  /\ LET s0 == Cur(NoInput)
         ids == {r.id : r \in enterWaits}
         s1 == IF c = "" THEN s0
               ELSE LET t == FreeSlot
                    IN  execLine([s0 EXCEPT !.entered = @ + 1, !.done = NoRun,
                                            !.tasks[t] = [IdleTask EXCEPT !.cmd = c]],
                                 t, c)
         s2 == IF kind = "a" THEN s1 ELSE HeardBy(s1)
     IN  Commit(DispatchInput(s2, ids, kind))

\* the timer of a wait (931) fires, no earlier than its delay
EnterTimerFires(id) ==
  /\ \E r \in enterWaits : r.id = id /\ r.timer /\ now >= r.start + r.timeout
  /\ Commit(enterTimeout(Cur(NoInput), id))

NextReact ==
  \/ \E kind \in InputKinds, c \in ReactLines : UserInput(kind, c)
  \/ \E t \in TaskIds : TimerElapses(t, MaxReactNow)
  \/ \E r \in enterWaits : EnterTimerFires(r.id)
  \/ \E d \in ReactSteps : Tick(d, MaxReactNow)

SpecReact == InitSpec /\ [][NextReact]_vars

\* C31: a waitForUserEnter call is resolved exactly when an Enter keydown or a
\* click came before its timer callback or that callback ran; it resolves true
\* in the first case and false in the second, the second no earlier than its
\* timeout; once resolved both its listeners are removed; it never throws, so a
\* mission6 run ends in pass or fail, and it passes if and only if the first
\* such input came less than 2000 ms after GO.
C31_EnterWaitResolves ==
  /\ \A r \in enterWaits :
       /\ r.settled <=> (r.heard \/ ~r.timer)
       /\ r.settled => /\ r.value = r.heard
                       /\ ~r.keydown /\ ~r.click
                       /\ ~r.value => r.at >= r.start + r.timeout
  /\ done.cmd = "mission6" =>
       /\ done.outcome \in {"pass", "fail"}
       /\ done.outcome = "pass" <=> done.reaction \in 0..1999

\* a mission6 run failed on an input that came 2000 ms or more after GO, and
\* another wait has resolved false on its timer
C31_Witness ==
  /\ done.cmd = "mission6" /\ done.outcome = "fail" /\ done.reaction >= 2000
  /\ \E r \in enterWaits : r.settled /\ ~r.value

====
